---- MODULE Spec2Model ----
(***************************************************************************)
(* A model of folian-parser: the package reader (extractEPUB), the chapter *)
(* consolidation engine and title cleanup (consolidateChapters,            *)
(* cleanChapterTitle), the chapter writer and package descriptor           *)
(* (processChapters, createContentOPF) and the packager (createEPUB).      *)
(*                                                                         *)
(* Strings are sequences of one-character strings.  A character outside    *)
(* ASCII is written by its code point ("u+01B0") and ByteLen gives the     *)
(* number of bytes Go's len() counts for it.                               *)
(***************************************************************************)
EXTENDS Integers, Sequences, FiniteSets, TLC

VARIABLES
    \* --- cleanChapterTitle applied twice ---
    tpc, title, chapterNum, once, twice,
    \* --- findChapters, processChapters, consolidateChapters, createContentOPF ---
    pc, EnhancedMode, nDocs, nVaried, filler, chapters, idx, currentChapter,
    consolidated, accDocs, lastOp, minStd, minAlt, currentAlt, consolidatedAlt,
    chaptersToProcess, written, bookChapters, manifest, spine, result,
    \* --- extractEPUB ---
    xpc, impl, nEntries, xk, fs, xlast, xerr,
    \* --- createEPUB ---
    zpc, tree, walk, zip, zerr, output,
    \* --- the fields of Book that ParseEPUB fills and processContent reads ---
    CoverImage, Images, Fonts,
    \* --- processContent: the format directory, the extracted tree, the files
    \*     written below OEBPS, the entries of nav.xhtml and toc.ncx, and what
    \*     ParseEPUB makes of the output ---
    formatFiles, extracted, oebps, nav, ncx, recovered,
    \* --- ParseEPUB: the package descriptor, the text scan of the fallback parser
    \*     and the fields of Book it fills; the lists after a first classification ---
    ppc, descriptor, gap, section, itemStart, bookManifest, bookSpine, bookGuide,
    Stylesheets, Chapters, firstRun,
    \* --- findContentOPF: the path of the package descriptor ---
    contentOPFPath,
    \* --- createCleanChapterContent and extractTitle called on their own: the
    \*     position in the call, the elements of the parsed document and the
    \*     one the loop is at, the content string and the value returned ---
    cpc, document, sel, htmlContent, returned

titleVars == <<tpc, title, chapterNum, once, twice>>
consVars == <<pc, EnhancedMode, nDocs, nVaried, filler, chapters, idx, currentChapter,
              consolidated, accDocs, lastOp, minStd, minAlt, currentAlt,
              consolidatedAlt, chaptersToProcess, written, bookChapters, manifest,
              spine, result>>
extractVars == <<xpc, impl, nEntries, xk, fs, xlast, xerr>>
zipVars == <<zpc, tree, walk, zip, zerr, output>>
bookVars == <<CoverImage, Images, Fonts>>
docVars == <<formatFiles, extracted, oebps, nav, ncx, recovered>>
parseVars == <<ppc, descriptor, gap, section, itemStart, bookManifest, bookSpine,
               bookGuide, Stylesheets, Chapters, firstRun>>
callVars == <<contentOPFPath, cpc, document, sel, htmlContent, returned>>
vars == <<titleVars, consVars, extractVars, zipVars, bookVars, docVars, parseVars,
          callVars>>

----------------------------------------------------------------------------
(* Strings *)

\* unicode.IsSpace on the characters the model uses (strings.TrimSpace)
IsSpace(c) == c \in {" ", "\n", "\t", "u+00A0"}

RECURSIVE TrimLeft(_)
TrimLeft(s) ==
    IF s = <<>> THEN <<>>
    ELSE IF IsSpace(Head(s)) THEN TrimLeft(Tail(s)) ELSE s

RECURSIVE TrimRight(_)
TrimRight(s) ==
    IF s = <<>> THEN <<>>
    ELSE IF IsSpace(s[Len(s)]) THEN TrimRight(SubSeq(s, 1, Len(s) - 1)) ELSE s

\* strings.TrimSpace
TrimSpace(s) == TrimRight(TrimLeft(s))

UpperChars == <<"A","B","C","D","E","F","G","H","I","J","K","L","M",
                "N","O","P","Q","R","S","T","U","V","W","X","Y","Z">>
LowerChars == <<"a","b","c","d","e","f","g","h","i","j","k","l","m",
                "n","o","p","q","r","s","t","u","v","w","x","y","z">>

LowerChar(c) ==
    IF \E i \in 1..26 : UpperChars[i] = c
    THEN LowerChars[CHOOSE i \in 1..26 : UpperChars[i] = c]
    ELSE c

\* strings.ToLower
ToLower(s) == [i \in 1..Len(s) |-> LowerChar(s[i])]

\* strings.HasPrefix
HasPrefix(s, p) == Len(p) <= Len(s) /\ SubSeq(s, 1, Len(p)) = p

\* strings.Contains
Contains(s, sub) ==
    \E i \in 1..(Len(s) - Len(sub) + 1) : SubSeq(s, i, i + Len(sub) - 1) = sub

\* strings.Count for a non-empty sub whose occurrences cannot overlap
Count(s, sub) ==
    Cardinality({i \in 1..(Len(s) - Len(sub) + 1) : SubSeq(s, i, i + Len(sub) - 1) = sub})

\* strings.SplitN(s, " ", 2)
SplitN2(s) ==
    IF \E i \in 1..Len(s) : s[i] = " "
    THEN LET k == CHOOSE i \in 1..Len(s) : s[i] = " " /\ \A j \in 1..(i - 1) : s[j] # " "
         IN  <<SubSeq(s, 1, k - 1), SubSeq(s, k + 1, Len(s))>>
    ELSE <<s>>

Digits == <<"0","1","2","3","4","5","6","7","8","9">>

\* regexp.MatchString(`^\d+$`, s)
IsNumber(s) == Len(s) > 0 /\ \A i \in 1..Len(s) : \E d \in 1..10 : Digits[d] = s[i]

\* fmt.Sprintf("%d", n) for n >= 0
RECURSIVE FormatInt(_)
FormatInt(n) ==
    IF n < 10 THEN <<Digits[n + 1]>>
    ELSE FormatInt(n \div 10) \o <<Digits[(n % 10) + 1]>>

\* fmt.Sprintf("%03d", n) for n >= 0: at least three digits, zero padded
Format03d(n) ==
    LET d == FormatInt(n)
    IN  IF Len(d) >= 3 THEN d
        ELSE [i \in 1..(3 - Len(d)) |-> "0"] \o d

\* bytes Go's len() counts for one character (UTF-8)
CharBytes(c) ==
    IF c \in {"u+1EE5", "u+1EA7"} THEN 3
    ELSE IF c \in {"u+01B0", "u+01A1", "u+00A0"} THEN 2
    ELSE 1

\* len(s) of a Go string
RECURSIVE ByteLen(_)
ByteLen(s) == IF s = <<>> THEN 0 ELSE CharBytes(Head(s)) + ByteLen(Tail(s))

\* the character references html.UnescapeString decodes, of those the model writes
Entities == << <<(<<"&","a","m","p",";">>), (<<"&">>)>>,
               <<(<<"&","#","3","2",";">>), (<<" ">>)>>,
               <<(<<"&","l","t",";">>), (<<"<">>)>> >>

\* html.UnescapeString: one left-to-right pass, a decoded character is not decoded again
RECURSIVE UnescapeString(_)
UnescapeString(s) ==
    IF s = <<>> THEN <<>>
    ELSE IF \E e \in 1..Len(Entities) : HasPrefix(s, Entities[e][1])
    THEN LET e == CHOOSE x \in 1..Len(Entities) : HasPrefix(s, Entities[x][1])
         IN  Entities[e][2] \o UnescapeString(SubSeq(s, Len(Entities[e][1]) + 1, Len(s)))
    ELSE <<Head(s)>> \o UnescapeString(Tail(s))

RECURSIVE Flatten(_)
Flatten(ss) == IF ss = <<>> THEN <<>> ELSE Head(ss) \o Flatten(Tail(ss))

----------------------------------------------------------------------------
(* Paths *)

(* Paths are strings (sequences of characters) so that strings.HasPrefix acts *)
(* on them as it does in Go.  The separator is "/".                           *)

Slash == <<"/">>

\* strings.Split(s, "/")
RECURSIVE SplitSlash(_)
SplitSlash(s) ==
    IF s = <<>> THEN << <<>> >>
    ELSE LET r == SplitSlash(Tail(s))
         IN  IF Head(s) = "/" THEN << <<>> >> \o r
             ELSE << <<Head(s)>> \o r[1] >> \o Tail(r)

\* the elements of a path joined by the separator
RECURSIVE JoinSlash(_)
JoinSlash(comps) ==
    IF comps = <<>> THEN <<>>
    ELSE IF Len(comps) = 1 THEN comps[1]
    ELSE comps[1] \o Slash \o JoinSlash(Tail(comps))

DotDot == <<".", ".">>

(* The element loop of filepath.Clean: empty elements and "." are dropped, *)
(* ".." removes the element before it, is dropped at the root, and is kept *)
(* at the front of a relative path.                                        *)
RECURSIVE CleanComps(_, _, _)
CleanComps(comps, out, rooted) ==
    IF comps = <<>> THEN out
    ELSE LET c == Head(comps)
             rest == Tail(comps)
         IN  IF c = <<>> \/ c = <<".">> THEN CleanComps(rest, out, rooted)
             ELSE IF c = DotDot
             THEN IF out # <<>> /\ out[Len(out)] # DotDot
                  THEN CleanComps(rest, SubSeq(out, 1, Len(out) - 1), rooted)
                  ELSE IF rooted THEN CleanComps(rest, out, rooted)
                  ELSE CleanComps(rest, Append(out, c), rooted)
             ELSE CleanComps(rest, Append(out, c), rooted)

\* filepath.Clean
Clean(path) ==
    IF path = <<>> THEN <<".">>
    ELSE LET rooted == Head(path) = "/"
             out == JoinSlash(CleanComps(SplitSlash(path), <<>>, rooted))
         IN  IF rooted THEN Slash \o out
             ELSE IF out = <<>> THEN <<".">> ELSE out

\* filepath.Join of two elements: empty elements are ignored
Join(a, b) ==
    IF a = <<>> THEN (IF b = <<>> THEN <<>> ELSE Clean(b))
    ELSE IF b = <<>> THEN Clean(a)
    ELSE Clean(a \o Slash \o b)

\* the index of the last separator of path, 0 when there is none
LastSlash(path) ==
    LET at == {i \in 1..Len(path) : path[i] = "/"}
    IN  IF at = {} THEN 0 ELSE CHOOSE i \in at : \A j \in at : j <= i

\* filepath.Dir
Dir(path) == Clean(SubSeq(path, 1, LastSlash(path)))

\* the non-empty elements of a path
Components(path) == SelectSeq(SplitSlash(path), LAMBDA c : c # <<>>)

\* filepath.Base of a cleaned path that does not end in a separator
Base(path) ==
    IF path = <<>> THEN <<".">>
    ELSE SubSeq(path, LastSlash(path) + 1, Len(path))

\* the index of the last dot of the last element of path, 0 when it has none
LastDot(path) ==
    LET at == {i \in (LastSlash(path) + 1)..Len(path) : path[i] = "."}
    IN  IF at = {} THEN 0 ELSE CHOOSE i \in at : \A j \in at : j <= i

\* filepath.Ext
Ext(path) == IF LastDot(path) = 0 THEN <<>> ELSE SubSeq(path, LastDot(path), Len(path))

\* strings.HasSuffix
HasSuffix(s, p) == Len(p) <= Len(s) /\ SubSeq(s, Len(s) - Len(p) + 1, Len(s)) = p

----------------------------------------------------------------------------
(* Title cleanup *)

prefixesToRemove == << <<"p","a","r","t">>,
                       <<"p","h","u+1EA7","n">>,
                       <<"s","e","c","t","i","o","n">> >>

ChuongPrefix == <<"C","h","u+01B0","u+01A1","n","g"," ">>

Untitled == <<"u","n","t","i","t","l","e","d">>

\* the prefix loop of cleanChapterTitle: titleLower is computed once, before the loop
RECURSIVE StripPrefixes(_, _, _)
StripPrefixes(t, titleLower, k) ==
    IF k > Len(prefixesToRemove) THEN t
    ELSE IF HasPrefix(titleLower, prefixesToRemove[k])
         THEN LET parts == SplitN2(t)
              IN  StripPrefixes(IF Len(parts) > 1 THEN TrimSpace(parts[2]) ELSE t,
                                titleLower, k + 1)
         ELSE StripPrefixes(t, titleLower, k + 1)

\* the rewrite of a numeric, empty or "untitled" title
RewriteGeneric(t, n) ==
    IF IsNumber(t) THEN ChuongPrefix \o t
    ELSE IF t = <<>> \/ ToLower(t) = Untitled THEN ChuongPrefix \o FormatInt(n)
    ELSE t

cleanChapterTitle(t, n) ==
    LET t1 == UnescapeString(TrimSpace(t))
    IN  RewriteGeneric(StripPrefixes(t1, ToLower(t1), 1), n)

\* the pieces titles are built from
TitleTokens == { <<" ">>, <<"p","a","r","t">>, <<"S","e","c","t","i","o","n">>,
                 <<"5">>, <<"x">>, <<"U","n","t","i","t","l","e","d">>,
                 <<"&","a","m","p",";">>, <<"a","m","p",";">>, <<"&","#","3","2",";">> }

MaxTitleTokens == 3
MaxChapterNum == 2

RECURSIVE TokenSeqs(_, _)
TokenSeqs(S, n) ==
    IF n = 0 THEN {<<>>}
    ELSE LET shorter == TokenSeqs(S, n - 1)
         IN  shorter \cup {<<x>> \o s : x \in S, s \in {r \in shorter : Len(r) = n - 1}}

TitleInputs == {Flatten(ts) : ts \in TokenSeqs(TitleTokens, MaxTitleTokens)}

----------------------------------------------------------------------------
(* Chapter content *)

(* A chapter's Content is a Go string of up to tens of thousands of bytes.  It *)
(* is held run-length encoded: a sequence of runs [s, n], the string s         *)
(* repeated n >= 1 times, no two neighbouring runs with the same s.  The       *)
(* pieces s are chosen so that no searched text (a navigation indicator,       *)
(* "<a ") lies across the border of two pieces, and a piece is white space     *)
(* throughout or has none at its ends.                                         *)

Run(s, n) == [s |-> s, n |-> n]

\* len(content)
RECURSIVE ContentLen(_)
ContentLen(c) ==
    IF c = <<>> THEN 0 ELSE Head(c).n * ByteLen(Head(c).s) + ContentLen(Tail(c))

IsSpaceRun(r) == \A i \in 1..Len(r.s) : IsSpace(r.s[i])

RECURSIVE TrimContentLeft(_)
TrimContentLeft(c) ==
    IF c = <<>> THEN <<>>
    ELSE IF IsSpaceRun(Head(c)) THEN TrimContentLeft(Tail(c)) ELSE c

RECURSIVE TrimContentRight(_)
TrimContentRight(c) ==
    IF c = <<>> THEN <<>>
    ELSE IF IsSpaceRun(c[Len(c)]) THEN TrimContentRight(SubSeq(c, 1, Len(c) - 1)) ELSE c

\* strings.TrimSpace(content)
TrimContent(c) == TrimContentRight(TrimContentLeft(c))

\* a + b
ConcatContent(a, b) ==
    IF a = <<>> THEN b
    ELSE IF b = <<>> THEN a
    ELSE IF a[Len(a)].s = b[1].s
         THEN SubSeq(a, 1, Len(a) - 1) \o <<Run(b[1].s, a[Len(a)].n + b[1].n)>> \o Tail(b)
         ELSE a \o b

\* strings.ToLower(content)
ContentToLower(c) == [i \in 1..Len(c) |-> Run(ToLower(c[i].s), c[i].n)]

\* strings.Contains(content, sub)
ContentContains(c, sub) == \E i \in 1..Len(c) : Contains(c[i].s, sub)

\* strings.Count(content, sub)
RECURSIVE ContentCount(_, _)
ContentCount(c, sub) ==
    IF c = <<>> THEN 0
    ELSE Head(c).n * Count(Head(c).s, sub) + ContentCount(Tail(c), sub)

\* "\n\n", the separator of merged documents
SeparatorSingle == <<Run(<<"\n">>, 1)>>

Separator == <<Run(<<"\n">>, 2)>>

----------------------------------------------------------------------------
(* Chapter consolidation *)

Chapter(t, c) == [Title |-> t, Content |-> c]

DirectLimit == 20
minChapterLength == 800
maxChapterLength == 15000

navIndicators == { <<"t","a","b","l","e"," ","o","f"," ","c","o","n","t","e","n","t","s">>,
                   <<"m","u+1EE5","c"," ","l","u+1EE5","c">>,
                   <<"c","o","n","t","e","n","t","s">>,
                   <<"t","o","c">>,
                   <<"n","a","v","i","g","a","t","i","o","n">> }

LinkTag == <<"<","a"," ">>
MinLinkCount == 5
LinkDensityLimit == 10
LinkDensityScale == 1000

\* float64(linkCount)/float64(contentLength)*1000 > 10, which on these integers is
\* linkCount * 1000 > 10 * contentLength
DenseLinks(linkCount, contentLength) ==
    /\ contentLength > 0
    /\ linkCount > MinLinkCount
    /\ linkCount * LinkDensityScale > LinkDensityLimit * contentLength

isNavigationChapter(chapter) ==
    LET t == ToLower(chapter.Title)
        content == ContentToLower(chapter.Content)
    IN  \/ \E indicator \in navIndicators :
               Contains(t, indicator) \/ ContentContains(content, indicator)
        \/ DenseLinks(ContentCount(content, LinkTag), ContentLen(TrimContent(content)))

WordChapter == <<"c","h","a","p","t","e","r">>
WordPart == <<"p","a","r","t">>
LongTitle == 10

isBetterTitle(newTitle, currentTitle) ==
    LET newLower == ToLower(TrimSpace(newTitle))
        currentLower == ToLower(TrimSpace(currentTitle))
    IN  \/ Contains(currentLower, WordChapter) /\ ~Contains(newLower, WordChapter)
        \/ Contains(currentLower, WordPart) /\ ~Contains(newLower, WordPart)
        \/ ByteLen(newTitle) > ByteLen(currentTitle) /\ ByteLen(newTitle) > LongTitle

\* a comparison turned around: the long documents are taken for the short ones
IsShortInverted(contentLength, minLen) == contentLength > minLen

\* contentLength < minChapterLength
IsShort(contentLength, minLen) == contentLength < minLen

\* the length test without the incoming document
FitsIgnoringIncoming(current, contentLength, maxLen) ==
    ContentLen(current.Content) < maxLen

\* len(currentChapter.Content) + contentLength < maxChapterLength
Fits(current, contentLength, maxLen) ==
    ContentLen(current.Content) + contentLength < maxLen

\* the direct mode test with the limit itself left out
DirectModeStrict(n) == n < DirectLimit

\* the direct mode test of consolidateChapters
DirectMode(n) == n <= DirectLimit

(* One iteration of the loop of consolidateChapters on the document chapter,  *)
(* with the thresholds minLen and maxLen.  cur is the accumulator (<<>> for a *)
(* nil currentChapter, <<c>> otherwise), cons the sealed chapters.  The       *)
(* result names what the iteration did: "drop", "merge" or "open".            *)

\* the iteration for a document that is not navigation noise
KeepStep(cons, cur, chapter, minLen, maxLen) ==
    LET contentLength == ContentLen(TrimContent(chapter.Content))
        sealed == cons \o cur
        opened == Chapter(cleanChapterTitle(chapter.Title, Len(sealed) + 1),
                          chapter.Content)
    IN  IF IsShort(contentLength, minLen) /\ cur # <<>>
           /\ Fits(cur[1], contentLength, maxLen)
        THEN [cons |-> cons,
              cur |-> <<Chapter(IF isBetterTitle(chapter.Title, cur[1].Title)
                                THEN chapter.Title ELSE cur[1].Title,
                                ConcatContent(ConcatContent(cur[1].Content, Separator),
                                              chapter.Content))>>,
              op |-> "merge"]
        ELSE [cons |-> sealed, cur |-> <<opened>>, op |-> "open"]

\* the navigation test made only once an accumulator is open
ConsolidateStepNavOpens(cons, cur, chapter, minLen, maxLen) ==
    IF isNavigationChapter(chapter) /\ cur # <<>>
    THEN [cons |-> cons, cur |-> cur, op |-> "drop"]
    ELSE KeepStep(cons, cur, chapter, minLen, maxLen)

ConsolidateStep(cons, cur, chapter, minLen, maxLen) ==
    IF isNavigationChapter(chapter)
    THEN [cons |-> cons, cur |-> cur, op |-> "drop"]
    ELSE KeepStep(cons, cur, chapter, minLen, maxLen)

\* one iteration of the loop of cleanupChapterTitles, on the i-th chapter
CleanupStep(cleaned, chapter, i) ==
    Append(cleaned, Chapter(cleanChapterTitle(chapter.Title, i), chapter.Content))

----------------------------------------------------------------------------
(* The documents findChapters hands to processChapters *)

Text(n) == <<Run(<<"x">>, n)>>

\* 300 bytes of text inside white space
ShortText == <<Run(<<" ">>, 1), Run(<<"x">>, 300), Run(<<"\n">>, 1)>>

\* six links in 130 bytes
LinkPiece == <<"<","a"," ","h",">">>
LinkText == <<Run(LinkPiece, 6), Run(<<"x">>, 100)>>

\* text that names a table of contents
TocText == <<Run(<<"x">>, 50), Run(<<"C","o","n","t","e","n","t","s">>, 1), Run(<<"y">>, 50)>>

TitleChapter1 == <<"C","h","a","p","t","e","r"," ","1">>
TitleDescriptive == <<"A"," ","d","e","s","c","r","i","p","t","i","v","e"," ","t","i","t","l","e">>
TitleContents == <<"C","o","n","t","e","n","t","s">>

VariedTitles == {<<>>, TitleDescriptive, TitleContents}
VariedContents == {ShortText, Text(14000), LinkText}

DocKinds == {Chapter(t, c) : t \in VariedTitles, c \in VariedContents}

\* five links in 100 bytes
FewLinksText == <<Run(LinkPiece, 5), Run(<<"x">>, 75)>>

Fillers == {Chapter(TitleChapter1, Text(799)),
            Chapter(<<"5">>, Text(800)),
            Chapter(<<"x">>, TocText),
            Chapter(<<"y">>, FewLinksText)}

MaxDocs == 22
MaxVaried == 2

DocCounts == {0, 1, 2, DirectLimit, DirectLimit + 1, MaxDocs}

Min(a, b) == IF a < b THEN a ELSE b

----------------------------------------------------------------------------
(* processChapters and the documents generated from book.Chapters *)

\* html.EscapeString
RECURSIVE EscapeString(_)
EscapeString(s) ==
    IF s = <<>> THEN <<>>
    ELSE (CASE Head(s) = "&" -> <<"&","a","m","p",";">>
            [] Head(s) = "<" -> <<"&","l","t",";">>
            [] Head(s) = ">" -> <<"&","g","t",";">>
            [] Head(s) = "\"" -> <<"&","#","3","4",";">>
            [] Head(s) = "'" -> <<"&","#","3","9",";">>
            [] OTHER -> <<Head(s)>>) \o EscapeString(Tail(s))

\* the bytes of the chapter template of createCleanChapterContent and
\* createBasicChapterContent around its three %s
ChapterTemplateLen == 231

\* the least length of a processed chapter that is written
MinProcessedLen == 100

\* the length of the body alone
ProcessedLenBodyOnly(chapterTitle, bodyLen) == bodyLen

\* len(strings.TrimSpace(processedContent)): the template starts with "<?xml" and
\* ends with "</html>", so nothing is trimmed
ProcessedLen(chapterTitle, bodyLen) ==
    ChapterTemplateLen + 2 * ByteLen(EscapeString(chapterTitle)) + bodyLen

\* fmt.Sprintf("Chapter %d", i)
DefaultTitle(i) == <<"C","h","a","p","t","e","r"," ">> \o FormatInt(i)

\* fmt.Sprintf("chapter_%03d.xhtml", i)
ChapterFile(i) == <<"c","h","a","p","t","e","r","_">> \o Format03d(i) \o <<".","x","h","t","m","l">>

\* an item of a manifest: the attributes of <item/>
Item(id, href, mediaType, properties) ==
    [id |-> id, href |-> href, mediaType |-> mediaType, properties |-> properties]

\* the chapter items of the manifest of createContentOPF
RECURSIVE ChapterItems(_)
ChapterItems(n) ==
    IF n = 0 THEN <<>>
    ELSE Append(ChapterItems(n - 1),
                Item(<<"c","h","a","p","t","e","r">> \o FormatInt(n),
                     <<"c","h","a","p","t","e","r","s","/">> \o <<"c","h","a","p","t","e","r","_">> \o Format03d(n) \o <<".","x","h","t","m","l">>,
                     <<"a","p","p","l","i","c","a","t","i","o","n","/","x","h","t","m","l","+","x","m","l">>, <<>>))

\* the media type createContentOPF gives the cover image, by its extension
CoverMediaType(path) ==
    LET ext == ToLower(Ext(path))
    IN  IF ext = <<".","p","n","g">> THEN <<"i","m","a","g","e","/","p","n","g">>
        ELSE IF ext = <<".","g","i","f">> THEN <<"i","m","a","g","e","/","g","i","f">>
        ELSE IF ext = <<".","w","e","b","p">> THEN <<"i","m","a","g","e","/","w","e","b","p">>
        ELSE <<"i","m","a","g","e","/","j","p","e","g">>

\* the media type createContentOPF gives another image
ImageMediaType(path) ==
    IF ToLower(Ext(path)) = <<".","s","v","g">> THEN <<"i","m","a","g","e","/","s","v","g","+","x","m","l">> ELSE CoverMediaType(path)

\* the media type createContentOPF gives a font of book.Fonts
FontMediaType(path) ==
    LET ext == ToLower(Ext(path))
    IN  IF ext = <<".","w","o","f","f">> THEN <<"a","p","p","l","i","c","a","t","i","o","n","/","f","o","n","t","-","w","o","f","f">>
        ELSE IF ext = <<".","w","o","f","f","2">> THEN <<"f","o","n","t","/","w","o","f","f","2">>
        ELSE <<"a","p","p","l","i","c","a","t","i","o","n","/","v","n","d",".","m","s","-","o","p","e","n","t","y","p","e">>

\* the items createContentOPF adds for a cover: the two pages, the image, and
\* the logo when the format directory holds it
CoverItems(cover, ffiles) ==
    IF cover = <<>> THEN <<>>
    ELSE << Item(<<"t","i","t","l","e","p","a","g","e">>, <<"t","i","t","l","e","p","a","g","e",".","x","h","t","m","l">>, <<"a","p","p","l","i","c","a","t","i","o","n","/","x","h","t","m","l","+","x","m","l">>, <<"s","v","g">>),
            Item(<<"j","a","c","k","e","t">>, <<"j","a","c","k","e","t",".","x","h","t","m","l">>, <<"a","p","p","l","i","c","a","t","i","o","n","/","x","h","t","m","l","+","x","m","l">>, <<>>),
            Item(<<"c","o","v","e","r","-","i","m","a","g","e">>, <<"i","m","a","g","e","s","/","c","o","v","e","r">> \o Ext(cover), CoverMediaType(cover),
                 <<"c","o","v","e","r","-","i","m","a","g","e">>) >>
         \o (IF "folian.png" \in ffiles
             THEN << Item(<<"f","o","l","i","a","n","-","l","o","g","o">>, <<"i","m","a","g","e","s","/","f","o","l","i","a","n",".","p","n","g">>, <<"i","m","a","g","e","/","p","n","g">>, <<>>) >>
             ELSE <<>>)

\* the image items: one for every entry of book.Images other than the cover,
\* numbered by its place in book.Images
ImageItems(images, cover) ==
    LET at == SelectSeq([i \in 1..Len(images) |-> i], LAMBDA i : images[i] # cover)
    IN  [k \in 1..Len(at) |->
            Item(<<"i","m","a","g","e">> \o FormatInt(at[k]), <<"i","m","a","g","e","s","/">> \o Base(images[at[k]]),
                 ImageMediaType(images[at[k]]), <<>>)]

\* the font items: jura-font always, then one for every entry of book.Fonts
FontItems(fonts) ==
    << Item(<<"j","u","r","a","-","f","o","n","t">>, <<"f","o","n","t","s","/","j","u","r","a",".","t","t","f">>, <<"a","p","p","l","i","c","a","t","i","o","n","/","v","n","d",".","m","s","-","o","p","e","n","t","y","p","e">>, <<>>) >>
    \o [i \in 1..Len(fonts) |->
            Item(<<"f","o","n","t">> \o FormatInt(i), <<"f","o","n","t","s","/">> \o Base(fonts[i]),
                 FontMediaType(fonts[i]), <<>>)]

\* manifestItems of createContentOPF
ManifestItems(bookCh, cover, images, fonts, ffiles) ==
    << Item(<<"n","c","x">>, <<"t","o","c",".","n","c","x">>, <<"a","p","p","l","i","c","a","t","i","o","n","/","x","-","d","t","b","n","c","x","+","x","m","l">>, <<>>),
       Item(<<"n","a","v">>, <<"n","a","v",".","x","h","t","m","l">>, <<"a","p","p","l","i","c","a","t","i","o","n","/","x","h","t","m","l","+","x","m","l">>, <<"n","a","v">>) >>
    \o CoverItems(cover, ffiles)
    \o << Item(<<"s","t","y","l","e","s","h","e","e","t">>, <<"s","t","y","l","e","s","/","s","t","y","l","e","s","h","e","e","t",".","c","s","s">>, <<"t","e","x","t","/","c","s","s">>, <<>>) >>
    \o ChapterItems(Len(bookCh))
    \o ImageItems(images, cover)
    \o FontItems(fonts)

\* spineItems of createContentOPF
SpineItemsAlways(bookCh, cover) ==
    << <<"t","i","t","l","e","p","a","g","e">>, <<"j","a","c","k","e","t">> >>
    \o << <<"n","a","v">> >>
    \o [i \in 1..Len(bookCh) |-> <<"c","h","a","p","t","e","r">> \o FormatInt(i)]

SpineItems(bookCh, cover) ==
    (IF cover = <<>> THEN <<>> ELSE << <<"t","i","t","l","e","p","a","g","e">>, <<"j","a","c","k","e","t">> >>)
    \o << <<"n","a","v">> >>
    \o [i \in 1..Len(bookCh) |-> <<"c","h","a","p","t","e","r">> \o FormatInt(i)]

\* the entries createNavDocument puts in place of {{TOC_ENTRIES}}, of which the
\* template of the format directory has one
NavEntries(bookCh) ==
    [i \in 1..Len(bookCh) |->
        [href |-> <<"c","h","a","p","t","e","r","s","/","c","h","a","p","t","e","r","_">> \o Format03d(i) \o <<".","x","h","t","m","l">>,
         title |-> bookCh[i].Title]]

\* the navPoints of createTocNCX
NavPointsReversed(bookCh, cover) ==
    [i \in 1..Len(bookCh) |->
        [id |-> <<"n","a","v","p","o","i","n","t","-">> \o FormatInt(i), playOrder |-> i,
         text |-> bookCh[Len(bookCh) + 1 - i].Title,
         src |-> <<"c","h","a","p","t","e","r","s","/","c","h","a","p","t","e","r","_">> \o Format03d(i) \o <<".","x","h","t","m","l">>]]

NavPoints(bookCh, cover) ==
    LET playOrder == IF cover = <<>> THEN 1 ELSE 3
    IN  (IF cover = <<>> THEN <<>>
         ELSE << [id |-> <<"n","a","v","p","o","i","n","t","-","t","i","t","l","e","p","a","g","e">>, playOrder |-> 1, text |-> <<"C","o","v","e","r">>,
                  src |-> <<"t","i","t","l","e","p","a","g","e",".","x","h","t","m","l">>],
                 [id |-> <<"n","a","v","p","o","i","n","t","-","j","a","c","k","e","t">>, playOrder |-> 2, text |-> <<"T","i","t","l","e"," ","P","a","g","e">>,
                  src |-> <<"j","a","c","k","e","t",".","x","h","t","m","l">>] >>)
        \o [i \in 1..Len(bookCh) |->
               [id |-> <<"n","a","v","p","o","i","n","t","-">> \o FormatInt(i), playOrder |-> (i - 1) + playOrder,
                text |-> bookCh[i].Title,
                src |-> <<"c","h","a","p","t","e","r","s","/","c","h","a","p","t","e","r","_">> \o Format03d(i) \o <<".","x","h","t","m","l">>]]

\* book.Spine of a book whose first document is firstHref
FirstSpine == << <<"c","1">> >>

\* book.Path, the directory the archive was extracted to
bookPath == <<"/","e">>

\* book.Manifest[book.Spine[0].IDRef].Href
firstHref == <<"t","e","x","t","/","c","1",".","x","h","t","m","l">>

\* basePath of processContent
basePath == Dir(Join(bookPath, firstHref))

\* the files processContent reads from the format directory
FormatFiles ==
    {"stylesheet.css", "jura.ttf", "titlepage.xhtml", "jacket.xhtml", "folian.png",
     "nav.xhtml"}

\* the format directory complete, and with the stylesheet, the font or the logo missing
FormatDirs ==
    {FormatFiles, FormatFiles \ {"stylesheet.css"}, FormatFiles \ {"jura.ttf"},
     FormatFiles \ {"folian.png"}}

ImageHrefs == {<<"i","m","g","/","a",".","p","n","g">>, <<"i","m","g","/","c","o","v","e","r",".","p","n","g">>, <<"p","i","c","/","c","o","v","e","r",".","p","n","g">>}
CoverHrefs == {<<>>, <<"i","m","g","/","c","o","v","e","r",".","p","n","g">>}
FontHrefs == {<<"f","o","n","t","s","/","f",".","t","t","f">>}

\* the extracted files below book.Path a run may meet: none of the assets; all
\* of them where the hrefs resolve from basePath; the images under the
\* extraction directory only, next to a cover.jpg beside the first document
ExtractedTrees ==
    { {},
      {<<"/","e","/","t","e","x","t","/","i","m","g","/","a",".","p","n","g">>, <<"/","e","/","t","e","x","t","/","i","m","g","/","c","o","v","e","r",".","p","n","g">>, <<"/","e","/","t","e","x","t","/","p","i","c","/","c","o","v","e","r",".","p","n","g">>,
       <<"/","e","/","t","e","x","t","/","f","o","n","t","s","/","f",".","t","t","f">>},
      {<<"/","e","/","i","m","g","/","a",".","p","n","g">>, <<"/","e","/","O","E","B","P","S","/","i","m","a","g","e","s","/","c","o","v","e","r",".","p","n","g">>, <<"/","e","/","t","e","x","t","/","c","o","v","e","r",".","j","p","g">>} }

MaxImages == 2
MaxFonts == 1
MaxBookChapters == 2

\* the documents of the books processContent is followed on with all its assets
BookDocs == {Chapter(t, ShortText) : t \in {<<>>, TitleDescriptive}}

\* the sequences over S of at most n elements
SeqsUpTo(S, n) == UNION {[1..k -> S] : k \in 0..n}

\* the cover file processContent finds beside the first document, <<>> for none
StatCover(files) ==
    IF Join(basePath, <<"c","o","v","e","r",".","j","p","g">>) \in files THEN <<"c","o","v","e","r",".","j","p","g">>
    ELSE IF Join(basePath, <<"c","o","v","e","r",".","j","p","e","g">>) \in files THEN <<"c","o","v","e","r",".","j","p","e","g">>
    ELSE IF Join(basePath, <<"c","o","v","e","r",".","p","n","g">>) \in files THEN <<"c","o","v","e","r",".","p","n","g">>
    ELSE <<>>

\* the lookups of processImages for imagePath: the path below basePath, below
\* OEBPS, OEBPS/images and the extraction directory, then a walk of the
\* extraction directory for a file of the same name
Located(files, imagePath) ==
    \/ Join(basePath, imagePath) \in files
    \/ Join(Join(Dir(basePath), <<"O","E","B","P","S">>), imagePath) \in files
    \/ Join(Join(Dir(basePath), <<"O","E","B","P","S","/","i","m","a","g","e","s">>), Base(imagePath)) \in files
    \/ Join(Dir(basePath), Base(imagePath)) \in files
    \/ \E f \in files : HasPrefix(f, Dir(basePath) \o Slash) /\ Base(f) = Base(imagePath)

InitTitle ==
    /\ tpc = "start"
    /\ title \in TitleInputs
    /\ chapterNum \in 1..MaxChapterNum
    /\ once = <<>>
    /\ twice = <<>>
    /\ pc = "idle" /\ EnhancedMode = FALSE /\ nDocs = 0 /\ nVaried = 0
    /\ filler = Chapter(<<>>, <<>>) /\ chapters = <<>> /\ idx = 0
    /\ currentChapter = <<>> /\ consolidated = <<>> /\ accDocs = <<>>
    /\ lastOp = "none" /\ minStd = minChapterLength /\ minAlt = minChapterLength
    /\ currentAlt = <<>> /\ consolidatedAlt = <<>> /\ chaptersToProcess = <<>>
    /\ written = {} /\ bookChapters = <<>> /\ manifest = <<>> /\ spine = <<>>
    /\ result = "none"
    /\ xpc = "idle" /\ impl = "none" /\ nEntries = 0 /\ xk = 0 /\ fs = {}
    /\ xlast = <<>> /\ xerr = "none"
    /\ zpc = "idle" /\ tree = {} /\ walk = <<>> /\ zip = <<>> /\ zerr = "none"
    /\ output = "none"
    /\ CoverImage = <<>> /\ Images = <<>> /\ Fonts = <<>>
    /\ formatFiles = {} /\ extracted = {} /\ oebps = {} /\ nav = <<>> /\ ncx = <<>>
    /\ recovered = <<>>
    /\ ppc = "idle" /\ descriptor = <<>> /\ gap = <<>> /\ section = <<>> /\ itemStart = 0
    /\ bookManifest = <<>> /\ bookSpine = <<>> /\ bookGuide = <<>> /\ Stylesheets = <<>>
    /\ Chapters = <<>> /\ firstRun = <<>>
    /\ contentOPFPath = <<>> /\ cpc = "idle" /\ document = <<>> /\ sel = 0
    /\ htmlContent = <<>> /\ returned = <<>>

\* a first call of cleanChapterTitle
CleanOnce ==
    /\ tpc = "start"
    /\ once' = cleanChapterTitle(title, chapterNum)
    /\ tpc' = "once"
    /\ UNCHANGED <<title, chapterNum, twice>>
    /\ UNCHANGED <<consVars, extractVars, zipVars, bookVars, docVars, parseVars, callVars>>

\* a second call, on the first call's result
CleanTwice ==
    /\ tpc = "once"
    /\ twice' = cleanChapterTitle(once, chapterNum)
    /\ tpc' = "twice"
    /\ UNCHANGED <<title, chapterNum, once>>
    /\ UNCHANGED <<consVars, extractVars, zipVars, bookVars, docVars, parseVars, callVars>>

----------------------------------------------------------------------------
(* findChapters, processChapters, createNavDocument, createContentOPF, createTocNCX *)

\* the state when findChapters starts on a book of nDocs content documents, with
\* no cover, images or fonts, and a complete format directory
Init ==
    /\ pc = "parse"
    /\ EnhancedMode \in BOOLEAN
    /\ nDocs \in DocCounts
    /\ nVaried \in 0..Min(MaxVaried, nDocs)
    /\ filler \in Fillers
    /\ chapters = <<>>
    /\ idx = 1
    /\ currentChapter = <<>>
    /\ consolidated = <<>>
    /\ accDocs = <<>>
    /\ lastOp = "none"
    /\ minStd = minChapterLength
    /\ minAlt = minChapterLength
    /\ currentAlt = <<>>
    /\ consolidatedAlt = <<>>
    /\ chaptersToProcess = <<>>
    /\ written = {}
    /\ bookChapters = <<>>
    /\ manifest = <<>>
    /\ spine = <<>>
    /\ result = "running"
    /\ tpc = "idle" /\ title = <<>> /\ chapterNum = 0 /\ once = <<>> /\ twice = <<>>
    /\ xpc = "idle" /\ impl = "none" /\ nEntries = 0 /\ xk = 0 /\ fs = {}
    /\ xlast = <<>> /\ xerr = "none"
    /\ zpc = "idle" /\ tree = {} /\ walk = <<>> /\ zip = <<>> /\ zerr = "none"
    /\ output = "none"
    /\ CoverImage = <<>> /\ Images = <<>> /\ Fonts = <<>>
    /\ formatFiles = FormatFiles /\ extracted = {} /\ oebps = {} /\ nav = <<>>
    /\ ncx = <<>> /\ recovered = <<>>
    /\ ppc = "idle" /\ descriptor = <<>> /\ gap = <<>> /\ section = <<>> /\ itemStart = 0
    /\ bookManifest = <<>> /\ bookSpine = FirstSpine /\ bookGuide = <<>> /\ Stylesheets = <<>>
    /\ Chapters = <<>> /\ firstRun = <<>>
    /\ contentOPFPath = <<>> /\ cpc = "idle" /\ document = <<>> /\ sel = 0
    /\ htmlContent = <<>> /\ returned = <<>>

\* the documents the next spine item may be: the first nDocs - nVaried are the filler
NextDocs == IF Len(chapters) < nDocs - nVaried THEN {filler} ELSE DocKinds

\* findChapters appends the next content document to book.Chapters
FindChapter ==
    /\ pc = "parse"
    /\ Len(chapters) < nDocs
    /\ \E doc \in NextDocs : chapters' = Append(chapters, doc)
    /\ bookChapters' = chapters'
    /\ UNCHANGED <<pc, EnhancedMode, nDocs, nVaried, filler, idx, currentChapter,
                   consolidated, accDocs, lastOp, minStd, minAlt, currentAlt,
                   consolidatedAlt, chaptersToProcess, written, manifest, spine, result>>
    /\ UNCHANGED <<titleVars, extractVars, zipVars, bookVars, docVars, parseVars, callVars>>

\* processContent up to processStylesheets: book.Spine[0] on an empty spine is
\* a run-time panic; a book without a cover gets the cover file that lies
\* beside its first document
ProcessContentStart ==
    /\ pc = "parse"
    /\ Len(chapters) = nDocs
    /\ IF bookSpine = <<>>
       THEN pc' = "panic" /\ UNCHANGED CoverImage
       ELSE /\ CoverImage' = IF CoverImage = <<>> THEN StatCover(extracted) ELSE CoverImage
            /\ pc' = "stylesheets"
    /\ UNCHANGED <<EnhancedMode, nDocs, nVaried, filler, chapters, idx, currentChapter,
                   consolidated, accDocs, lastOp, minStd, minAlt, currentAlt,
                   consolidatedAlt, chaptersToProcess, written, bookChapters, manifest,
                   spine, result>>
    /\ UNCHANGED <<Images, Fonts, docVars>>
    /\ UNCHANGED <<titleVars, extractVars, zipVars, parseVars, callVars>>

\* processStylesheets: the stylesheet must be read and written; the font is
\* written when it can be read, and a font that cannot be read is a warning.
\* pc is "failed" when processContent returns an error before processChapters.
ProcessStylesheets ==
    /\ pc = "stylesheets"
    /\ \E okStyle \in BOOLEAN, okFont \in BOOLEAN :
         IF "stylesheet.css" \notin formatFiles \/ ~okStyle
         THEN pc' = "failed" /\ result' = "error" /\ UNCHANGED oebps
         ELSE IF "jura.ttf" \notin formatFiles
         THEN /\ oebps' = oebps \cup {<<"s","t","y","l","e","s","/","s","t","y","l","e","s","h","e","e","t",".","c","s","s">>}
              /\ pc' = "fonts" /\ UNCHANGED result
         ELSE IF ~okFont
         THEN /\ oebps' = oebps \cup {<<"s","t","y","l","e","s","/","s","t","y","l","e","s","h","e","e","t",".","c","s","s">>}
              /\ pc' = "failed" /\ result' = "error"
         ELSE /\ oebps' = oebps \cup {<<"s","t","y","l","e","s","/","s","t","y","l","e","s","h","e","e","t",".","c","s","s">>, <<"f","o","n","t","s","/","j","u","r","a",".","t","t","f">>}
              /\ pc' = "fonts" /\ UNCHANGED result
    /\ UNCHANGED <<EnhancedMode, nDocs, nVaried, filler, chapters, idx, currentChapter,
                   consolidated, accDocs, lastOp, minStd, minAlt, currentAlt,
                   consolidatedAlt, chaptersToProcess, written, bookChapters, manifest,
                   spine>>
    /\ UNCHANGED <<bookVars, formatFiles, extracted, nav, ncx, recovered>>
    /\ UNCHANGED <<titleVars, extractVars, zipVars, parseVars, callVars>>

\* copyFonts: every font of book.Fonts is read below basePath and written
\* below fonts, or the run fails
CopyFonts ==
    /\ pc = "fonts"
    /\ \E ok \in BOOLEAN :
         IF ok /\ \A i \in 1..Len(Fonts) : Join(basePath, Fonts[i]) \in extracted
         THEN /\ oebps' = oebps \cup {<<"f","o","n","t","s","/">> \o Base(Fonts[i]) : i \in 1..Len(Fonts)}
              /\ pc' = "images" /\ UNCHANGED result
         ELSE /\ Fonts # <<>>
              /\ pc' = "failed" /\ result' = "error" /\ UNCHANGED oebps
    /\ UNCHANGED <<EnhancedMode, nDocs, nVaried, filler, chapters, idx, currentChapter,
                   consolidated, accDocs, lastOp, minStd, minAlt, currentAlt,
                   consolidatedAlt, chaptersToProcess, written, bookChapters, manifest,
                   spine>>
    /\ UNCHANGED <<bookVars, formatFiles, extracted, nav, ncx, recovered>>
    /\ UNCHANGED <<titleVars, extractVars, zipVars, parseVars, callVars>>

\* the files processImages writes for the cover: the image, the two pages and,
\* when the format directory holds it and the copy works, the logo
CoverFiles(cover, ffiles, okLogo) ==
    IF cover = <<>> THEN {}
    ELSE {<<"i","m","a","g","e","s","/","c","o","v","e","r">> \o Ext(cover), <<"t","i","t","l","e","p","a","g","e",".","x","h","t","m","l">>, <<"j","a","c","k","e","t",".","x","h","t","m","l">>}
         \cup (IF "folian.png" \in ffiles /\ okLogo THEN {<<"i","m","a","g","e","s","/","f","o","l","i","a","n",".","p","n","g">>} ELSE {})

\* the files processImages writes for the other images: those it locates
ImageFiles(images, cover, files) ==
    {<<"i","m","a","g","e","s","/">> \o Base(images[i]) :
        i \in {j \in 1..Len(images) : images[j] # cover /\ Located(files, images[j])}}

\* processImages: a cover that cannot be located, a template that cannot be
\* read and a failed write end the run; an image that cannot be located is
\* skipped with a warning, and so is a logo that cannot be copied
ProcessImages ==
    /\ pc = "images"
    /\ \E ok \in BOOLEAN, okLogo \in BOOLEAN :
         IF /\ ok
            /\ CoverImage # <<>> =>
                  /\ Located(extracted, CoverImage)
                  /\ {"titlepage.xhtml", "jacket.xhtml"} \subseteq formatFiles
         THEN /\ oebps' = oebps \cup CoverFiles(CoverImage, formatFiles, okLogo)
                                \cup ImageFiles(Images, CoverImage, extracted)
              /\ pc' = "chapters" /\ UNCHANGED result
         ELSE /\ CoverImage # <<>> \/ ImageFiles(Images, CoverImage, extracted) # {}
              /\ pc' = "failed" /\ result' = "error" /\ UNCHANGED oebps
    /\ UNCHANGED <<EnhancedMode, nDocs, nVaried, filler, chapters, idx, currentChapter,
                   consolidated, accDocs, lastOp, minStd, minAlt, currentAlt,
                   consolidatedAlt, chaptersToProcess, written, bookChapters, manifest,
                   spine>>
    /\ UNCHANGED <<bookVars, formatFiles, extracted, nav, ncx, recovered>>
    /\ UNCHANGED <<titleVars, extractVars, zipVars, parseVars, callVars>>

\* processChapters up to its loop; consolidateChapters up to its loop
ProcessChaptersStart ==
    /\ pc = "chapters"
    /\ idx' = 1
    /\ IF ~EnhancedMode
       THEN pc' = "write" /\ chaptersToProcess' = bookChapters
       ELSE /\ pc' = IF DirectMode(Len(chapters)) THEN "cleanup" ELSE "consolidate"
            /\ UNCHANGED chaptersToProcess
    /\ UNCHANGED <<EnhancedMode, nDocs, nVaried, filler, chapters, currentChapter,
                   consolidated, accDocs, lastOp, minStd, minAlt, currentAlt,
                   consolidatedAlt, written, bookChapters, manifest, spine, result>>
    /\ UNCHANGED <<titleVars, extractVars, zipVars, bookVars, docVars, parseVars, callVars>>

\* one iteration of the loop of cleanupChapterTitles
CleanupChapter ==
    /\ pc = "cleanup"
    /\ idx <= Len(chapters)
    /\ consolidated' = CleanupStep(consolidated, chapters[idx], idx)
    /\ idx' = idx + 1
    /\ UNCHANGED <<pc, EnhancedMode, nDocs, nVaried, filler, chapters, currentChapter,
                   accDocs, lastOp, minStd, minAlt, currentAlt, consolidatedAlt,
                   chaptersToProcess, written, bookChapters, manifest, spine, result>>
    /\ UNCHANGED <<titleVars, extractVars, zipVars, bookVars, docVars, parseVars, callVars>>

\* cleanupChapterTitles and consolidateChapters return the cleaned chapters
CleanupReturn ==
    /\ pc = "cleanup"
    /\ idx > Len(chapters)
    /\ chaptersToProcess' = consolidated
    /\ pc' = "write"
    /\ idx' = 1
    /\ UNCHANGED <<EnhancedMode, nDocs, nVaried, filler, chapters, currentChapter,
                   consolidated, accDocs, lastOp, minStd, minAlt, currentAlt,
                   consolidatedAlt, written, bookChapters, manifest, spine, result>>
    /\ UNCHANGED <<titleVars, extractVars, zipVars, bookVars, docVars, parseVars, callVars>>

\* one iteration of the loop of consolidateChapters; accDocs lists the documents
\* that make up the accumulator
ConsolidateChapter ==
    /\ pc = "consolidate"
    /\ idx <= Len(chapters)
    /\ LET r == ConsolidateStep(consolidated, currentChapter, chapters[idx],
                                minChapterLength, maxChapterLength)
       IN  /\ consolidated' = r.cons
           /\ currentChapter' = r.cur
           /\ lastOp' = r.op
           /\ accDocs' = CASE r.op = "drop" -> accDocs
                           [] r.op = "merge" -> Append(accDocs, idx)
                           [] OTHER -> <<idx>>
    /\ idx' = idx + 1
    /\ UNCHANGED <<pc, EnhancedMode, nDocs, nVaried, filler, chapters, minStd, minAlt,
                   currentAlt, consolidatedAlt, chaptersToProcess, written,
                   bookChapters, manifest, spine, result>>
    /\ UNCHANGED <<titleVars, extractVars, zipVars, bookVars, docVars, parseVars, callVars>>

\* the end of consolidateChapters: the last accumulator is sealed
ConsolidateReturn ==
    /\ pc = "consolidate"
    /\ idx > Len(chapters)
    /\ consolidated' = consolidated \o currentChapter
    /\ chaptersToProcess' = consolidated'
    /\ lastOp' = "return"
    /\ pc' = "write"
    /\ idx' = 1
    /\ UNCHANGED <<EnhancedMode, nDocs, nVaried, filler, chapters, currentChapter,
                   accDocs, minStd, minAlt, currentAlt, consolidatedAlt, written,
                   bookChapters, manifest, spine, result>>
    /\ UNCHANGED <<titleVars, extractVars, zipVars, bookVars, docVars, parseVars, callVars>>

\* the lengths the sanitized body of a chapter may have: all of it kept, or nothing
BodyLens(chapter) == {0, ContentLen(chapter.Content)}

\* one iteration of the loop of processChapters: the chapter is skipped when its
\* processed content is too short, else written; ioutil.WriteFile may fail
WriteChapter ==
    /\ pc = "write"
    /\ idx <= Len(chaptersToProcess)
    /\ LET chapter == chaptersToProcess[idx]
           chapterTitle == IF chapter.Title = <<>> THEN DefaultTitle(idx)
                           ELSE chapter.Title
       IN  \E bodyLen \in BodyLens(chapter), ok \in BOOLEAN :
               IF ProcessedLen(chapterTitle, bodyLen) < MinProcessedLen
               THEN idx' = idx + 1 /\ UNCHANGED <<pc, written, result>>
               ELSE IF ok
               THEN /\ written' = written \cup {ChapterFile(idx)}
                    /\ idx' = idx + 1
                    /\ UNCHANGED <<pc, result>>
               ELSE /\ result' = "error"
                    /\ pc' = "done"
                    /\ UNCHANGED <<idx, written>>
    /\ UNCHANGED <<EnhancedMode, nDocs, nVaried, filler, chapters, currentChapter,
                   consolidated, accDocs, lastOp, minStd, minAlt, currentAlt,
                   consolidatedAlt, chaptersToProcess, bookChapters, manifest, spine>>
    /\ UNCHANGED <<titleVars, extractVars, zipVars, bookVars, docVars, parseVars, callVars>>

\* the end of processChapters: book.Chapters = chaptersToProcess
ProcessChaptersReturn ==
    /\ pc = "write"
    /\ idx > Len(chaptersToProcess)
    /\ bookChapters' = chaptersToProcess
    /\ pc' = "nav"
    /\ UNCHANGED <<EnhancedMode, nDocs, nVaried, filler, chapters, idx, currentChapter,
                   consolidated, accDocs, lastOp, minStd, minAlt, currentAlt,
                   consolidatedAlt, chaptersToProcess, written, manifest, spine, result>>
    /\ UNCHANGED <<titleVars, extractVars, zipVars, bookVars, docVars, parseVars, callVars>>

\* createNavDocument: fails when the template cannot be read or nav.xhtml not written
CreateNavDocument ==
    /\ pc = "nav"
    /\ \E ok \in BOOLEAN :
           IF ok /\ "nav.xhtml" \in formatFiles
           THEN /\ nav' = NavEntries(bookChapters)
                /\ oebps' = oebps \cup {<<"n","a","v",".","x","h","t","m","l">>}
                /\ pc' = "opf" /\ UNCHANGED result
           ELSE pc' = "done" /\ result' = "error" /\ UNCHANGED <<nav, oebps>>
    /\ UNCHANGED <<EnhancedMode, nDocs, nVaried, filler, chapters, idx, currentChapter,
                   consolidated, accDocs, lastOp, minStd, minAlt, currentAlt,
                   consolidatedAlt, chaptersToProcess, written, bookChapters, manifest,
                   spine>>
    /\ UNCHANGED <<bookVars, formatFiles, extracted, ncx, recovered>>
    /\ UNCHANGED <<titleVars, extractVars, zipVars, parseVars, callVars>>

\* createContentOPF: the manifest and the spine are written, or the write fails
CreateContentOPF ==
    /\ pc = "opf"
    /\ \E ok \in BOOLEAN :
           IF ok
           THEN /\ manifest' = ManifestItems(bookChapters, CoverImage, Images, Fonts,
                                             formatFiles)
                /\ spine' = SpineItems(bookChapters, CoverImage)
                /\ oebps' = oebps \cup {<<"c","o","n","t","e","n","t",".","o","p","f">>}
                /\ pc' = "ncx"
                /\ UNCHANGED result
           ELSE /\ pc' = "done"
                /\ result' = "error"
                /\ UNCHANGED <<manifest, spine, oebps>>
    /\ UNCHANGED <<EnhancedMode, nDocs, nVaried, filler, chapters, idx, currentChapter,
                   consolidated, accDocs, lastOp, minStd, minAlt, currentAlt,
                   consolidatedAlt, chaptersToProcess, written, bookChapters>>
    /\ UNCHANGED <<bookVars, formatFiles, extracted, nav, ncx, recovered>>
    /\ UNCHANGED <<titleVars, extractVars, zipVars, parseVars, callVars>>

\* createTocNCX, after which processContent and Restructure return
CreateTocNCX ==
    /\ pc = "ncx"
    /\ \E ok \in BOOLEAN :
           IF ok
           THEN /\ ncx' = NavPoints(bookChapters, CoverImage)
                /\ oebps' = oebps \cup {<<"t","o","c",".","n","c","x">>}
                /\ result' = "ok"
           ELSE result' = "error" /\ UNCHANGED <<ncx, oebps>>
    /\ pc' = "done"
    /\ UNCHANGED <<EnhancedMode, nDocs, nVaried, filler, chapters, idx, currentChapter,
                   consolidated, accDocs, lastOp, minStd, minAlt, currentAlt,
                   consolidatedAlt, chaptersToProcess, written, bookChapters, manifest,
                   spine>>
    /\ UNCHANGED <<bookVars, formatFiles, extracted, nav, recovered>>
    /\ UNCHANGED <<titleVars, extractVars, zipVars, parseVars, callVars>>

\* book.Manifest as ParseEPUB fills it from the items of a descriptor: a map
\* from identifier to item, a later item of the same identifier replacing an
\* earlier one
ManifestOf(items) ==
    [id \in {items[i].id : i \in 1..Len(items)} |->
        items[CHOOSE i \in 1..Len(items) :
                 items[i].id = id /\ \A j \in (i + 1)..Len(items) : items[j].id # id]]

(* findChapters on the spine references refs, with the manifest man and the  *)
(* files of the extracted directory: the hrefs of the documents appended to  *)
(* book.Chapters after those of found, and whether a read failed.            *)
RECURSIVE findChapters(_, _, _, _)
findChapters(refs, man, files, found) ==
    IF refs = <<>> THEN [err |-> FALSE, Chapters |-> found]
    ELSE LET IDRef == Head(refs)
         IN  IF IDRef = <<>> \/ IDRef \notin DOMAIN man
             THEN findChapters(Tail(refs), man, files, found)
             ELSE LET manifestItem == man[IDRef]
                      chapterPath == Join(Dir(Join(bookPath, manifestItem.href)),
                                          Base(manifestItem.href))
                  IN  IF /\ ~Contains(manifestItem.mediaType, <<"x","h","t","m","l">>)
                         /\ ~Contains(manifestItem.mediaType, <<"h","t","m","l">>)
                      THEN findChapters(Tail(refs), man, files, found)
                      ELSE IF chapterPath \notin files
                      THEN [err |-> TRUE, Chapters |-> found]
                      ELSE findChapters(Tail(refs), man, files,
                                        Append(found, manifestItem.href))

\* the files of the archive of a run, extracted to book.Path: createEPUB packs
\* the restructured directory, with the documents below OEBPS
OutputTree(docs, chapterFiles) ==
    {Join(bookPath, <<"m","i","m","e","t","y","p","e">>), Join(bookPath, <<"M","E","T","A","-","I","N","F","/","c","o","n","t","a","i","n","e","r",".","x","m","l">>)}
    \cup {Join(Join(bookPath, <<"O","E","B","P","S">>), f) : f \in docs}
    \cup {Join(Join(bookPath, <<"O","E","B","P","S","/","c","h","a","p","t","e","r","s">>), f) : f \in chapterFiles}

\* ParseEPUB on the extracted archive of a successful run: content.opf is found
\* through container.xml and read by the strict parser, then findChapters
\* reads the documents of the spine
ParseOutput ==
    /\ pc = "done"
    /\ result = "ok"
    /\ recovered' = findChapters(spine, ManifestOf(manifest),
                                 OutputTree(oebps, written), <<>>)
    /\ pc' = "reparsed"
    /\ UNCHANGED <<EnhancedMode, nDocs, nVaried, filler, chapters, idx, currentChapter,
                   consolidated, accDocs, lastOp, minStd, minAlt, currentAlt,
                   consolidatedAlt, chaptersToProcess, written, bookChapters, manifest,
                   spine, result>>
    /\ UNCHANGED <<bookVars, formatFiles, extracted, oebps, nav, ncx>>
    /\ UNCHANGED <<titleVars, extractVars, zipVars, parseVars, callVars>>

\* the state when processContent starts on a parsed book: up to
\* MaxBookChapters documents, a cover or none, images, fonts, the format
\* directory and the extracted files
InitContent ==
    /\ pc = "parse"
    /\ EnhancedMode \in BOOLEAN
    /\ chapters \in SeqsUpTo(BookDocs, MaxBookChapters)
    /\ nDocs = Len(chapters)
    /\ nVaried = 0
    /\ filler = Chapter(<<>>, <<>>)
    /\ idx = 1
    /\ currentChapter = <<>>
    /\ consolidated = <<>>
    /\ accDocs = <<>>
    /\ lastOp = "none"
    /\ minStd = minChapterLength
    /\ minAlt = minChapterLength
    /\ currentAlt = <<>>
    /\ consolidatedAlt = <<>>
    /\ chaptersToProcess = <<>>
    /\ written = {}
    /\ bookChapters = chapters
    /\ manifest = <<>>
    /\ spine = <<>>
    /\ result = "running"
    /\ CoverImage \in CoverHrefs
    /\ Images \in SeqsUpTo(ImageHrefs, MaxImages)
    /\ Fonts \in SeqsUpTo(FontHrefs, MaxFonts)
    /\ formatFiles \in FormatDirs
    /\ extracted \in ExtractedTrees
    /\ oebps = {}
    /\ nav = <<>>
    /\ ncx = <<>>
    /\ recovered = <<>>
    /\ ppc = "idle" /\ descriptor = <<>> /\ gap = <<>> /\ section = <<>> /\ itemStart = 0
    /\ bookSpine \in (IF chapters = <<>> THEN {<<>>, FirstSpine} ELSE {FirstSpine})
    /\ bookManifest = <<>> /\ bookGuide = <<>> /\ Stylesheets = <<>>
    /\ Chapters = <<>> /\ firstRun = <<>>
    /\ tpc = "idle" /\ title = <<>> /\ chapterNum = 0 /\ once = <<>> /\ twice = <<>>
    /\ xpc = "idle" /\ impl = "none" /\ nEntries = 0 /\ xk = 0 /\ fs = {}
    /\ xlast = <<>> /\ xerr = "none"
    /\ zpc = "idle" /\ tree = {} /\ walk = <<>> /\ zip = <<>> /\ zerr = "none"
    /\ output = "none"
    /\ contentOPFPath = <<>> /\ cpc = "idle" /\ document = <<>> /\ sel = 0
    /\ htmlContent = <<>> /\ returned = <<>>

----------------------------------------------------------------------------
(* consolidateChapters under two minimum lengths, side by side *)

ThresholdChoices == {301, minChapterLength, 14001}

\* the state when findChapters starts, with the two minimum lengths to compare
InitThreshold ==
    /\ pc = "parse"
    /\ EnhancedMode = TRUE
    /\ nDocs \in {DirectLimit + 1, MaxDocs}
    /\ nVaried \in 0..Min(MaxVaried, nDocs)
    /\ filler \in Fillers
    /\ chapters = <<>>
    /\ idx = 1
    /\ currentChapter = <<>>
    /\ consolidated = <<>>
    /\ accDocs = <<>>
    /\ lastOp = "none"
    /\ minStd \in ThresholdChoices
    /\ minAlt \in {m \in ThresholdChoices : m > minStd}
    /\ currentAlt = <<>>
    /\ consolidatedAlt = <<>>
    /\ chaptersToProcess = <<>>
    /\ written = {}
    /\ bookChapters = <<>>
    /\ manifest = <<>>
    /\ spine = <<>>
    /\ result = "running"
    /\ tpc = "idle" /\ title = <<>> /\ chapterNum = 0 /\ once = <<>> /\ twice = <<>>
    /\ xpc = "idle" /\ impl = "none" /\ nEntries = 0 /\ xk = 0 /\ fs = {}
    /\ xlast = <<>> /\ xerr = "none"
    /\ zpc = "idle" /\ tree = {} /\ walk = <<>> /\ zip = <<>> /\ zerr = "none"
    /\ output = "none"
    /\ CoverImage = <<>> /\ Images = <<>> /\ Fonts = <<>>
    /\ formatFiles = {} /\ extracted = {} /\ oebps = {} /\ nav = <<>> /\ ncx = <<>>
    /\ recovered = <<>>
    /\ ppc = "idle" /\ descriptor = <<>> /\ gap = <<>> /\ section = <<>> /\ itemStart = 0
    /\ bookManifest = <<>> /\ bookSpine = <<>> /\ bookGuide = <<>> /\ Stylesheets = <<>>
    /\ Chapters = <<>> /\ firstRun = <<>>
    /\ contentOPFPath = <<>> /\ cpc = "idle" /\ document = <<>> /\ sel = 0
    /\ htmlContent = <<>> /\ returned = <<>>

\* consolidateChapters is entered with each of the two minimum lengths
CompareStart ==
    /\ pc = "parse"
    /\ Len(chapters) = nDocs
    /\ ~DirectMode(Len(chapters))
    /\ pc' = "compare"
    /\ idx' = 1
    /\ UNCHANGED <<EnhancedMode, nDocs, nVaried, filler, chapters, currentChapter,
                   consolidated, accDocs, lastOp, minStd, minAlt, currentAlt,
                   consolidatedAlt, chaptersToProcess, written, bookChapters, manifest,
                   spine, result>>
    /\ UNCHANGED <<titleVars, extractVars, zipVars, bookVars, docVars, parseVars, callVars>>

\* one iteration of the loop, in both runs
CompareChapter ==
    /\ pc = "compare"
    /\ idx <= Len(chapters)
    /\ LET r == ConsolidateStep(consolidated, currentChapter, chapters[idx],
                                minStd, maxChapterLength)
           a == ConsolidateStep(consolidatedAlt, currentAlt, chapters[idx],
                                minAlt, maxChapterLength)
       IN  /\ consolidated' = r.cons
           /\ currentChapter' = r.cur
           /\ lastOp' = r.op
           /\ consolidatedAlt' = a.cons
           /\ currentAlt' = a.cur
    /\ idx' = idx + 1
    /\ UNCHANGED <<pc, EnhancedMode, nDocs, nVaried, filler, chapters, accDocs, minStd,
                   minAlt, chaptersToProcess, written, bookChapters, manifest, spine,
                   result>>
    /\ UNCHANGED <<titleVars, extractVars, zipVars, bookVars, docVars, parseVars, callVars>>

\* the end of both runs: each seals its last accumulator
CompareReturn ==
    /\ pc = "compare"
    /\ idx > Len(chapters)
    /\ consolidated' = consolidated \o currentChapter
    /\ consolidatedAlt' = consolidatedAlt \o currentAlt
    /\ pc' = "compared"
    /\ UNCHANGED <<EnhancedMode, nDocs, nVaried, filler, chapters, idx, currentChapter,
                   accDocs, lastOp, minStd, minAlt, currentAlt, chaptersToProcess,
                   written, bookChapters, manifest, spine, result>>
    /\ UNCHANGED <<titleVars, extractVars, zipVars, bookVars, docVars, parseVars, callVars>>

----------------------------------------------------------------------------
(* consolidateChapters at the maximum length *)

\* documents that bring an accumulator to the maximum: a long one, of
\* maxChapterLength - minChapterLength characters or one or two more, and a
\* short one met while the long one is the accumulator
LongDocs ==
    {Chapter(<<"A"," ","d","e","s","c","r","i","p","t","i","v","e"," ","t","i","t","l","e">>,
             Text(maxChapterLength - minChapterLength + d)) : d \in 0..2}
ShortDocs == {Chapter(<<>>, Text(minChapterLength - d)) : d \in 0..2}

\* the state when processChapters starts on DirectLimit + 1 documents that
\* end with a long and a short one
InitMaximum ==
    /\ pc = "chapters"
    /\ EnhancedMode = TRUE
    /\ nDocs = DirectLimit + 1
    /\ nVaried = 2
    /\ filler \in {Chapter(<<"5">>, Text(minChapterLength)),
                   Chapter(<<"y">>, FewLinksText)}
    /\ \E long \in LongDocs, short \in ShortDocs :
           chapters = [i \in 1..(nDocs - 2) |-> filler] \o <<long, short>>
    /\ bookChapters = chapters
    /\ idx = 1
    /\ currentChapter = <<>>
    /\ consolidated = <<>>
    /\ accDocs = <<>>
    /\ lastOp = "none"
    /\ minStd = minChapterLength
    /\ minAlt = minChapterLength
    /\ currentAlt = <<>>
    /\ consolidatedAlt = <<>>
    /\ chaptersToProcess = <<>>
    /\ written = {}
    /\ manifest = <<>>
    /\ spine = <<>>
    /\ result = "running"
    /\ tpc = "idle" /\ title = <<>> /\ chapterNum = 0 /\ once = <<>> /\ twice = <<>>
    /\ xpc = "idle" /\ impl = "none" /\ nEntries = 0 /\ xk = 0 /\ fs = {}
    /\ xlast = <<>> /\ xerr = "none"
    /\ zpc = "idle" /\ tree = {} /\ walk = <<>> /\ zip = <<>> /\ zerr = "none"
    /\ output = "none"
    /\ CoverImage = <<>> /\ Images = <<>> /\ Fonts = <<>>
    /\ formatFiles = FormatFiles /\ extracted = {} /\ oebps = {} /\ nav = <<>>
    /\ ncx = <<>> /\ recovered = <<>>
    /\ ppc = "idle" /\ descriptor = <<>> /\ gap = <<>> /\ section = <<>> /\ itemStart = 0
    /\ bookManifest = <<>> /\ bookSpine = <<>> /\ bookGuide = <<>> /\ Stylesheets = <<>>
    /\ Chapters = <<>> /\ firstRun = <<>>
    /\ contentOPFPath = <<>> /\ cpc = "idle" /\ document = <<>> /\ sel = 0
    /\ htmlContent = <<>> /\ returned = <<>>

----------------------------------------------------------------------------
(* extractEPUB *)

\* the directory os.MkdirTemp made for the run
tempDir == <<"/", "t">>

\* extractPath := filepath.Join(tempDir, "extracted")
extractPath == Join(tempDir, <<"e", "x", "t", "r", "a", "c", "t", "e", "d">>)

\* the path-traversal test of the two copies of extractEPUB
LegalPath(copy, filePath) ==
    IF copy = "processor"
    THEN HasPrefix(filePath, Clean(extractPath) \o Slash)
    ELSE HasPrefix(filePath, extractPath)

\* const maxSize
maxSize == 100 * 1024 * 1024

(* io.CopyN(dst, src, maxSize) on a source of size bytes: the bytes written *)
(* and the error.  The source ends before maxSize bytes: io.EOF.  maxSize   *)
(* bytes were copied: nil, whatever the source still holds.                 *)
CopyN(size, fault) ==
    IF fault THEN [written |-> 0, err |-> "io"]
    ELSE IF size < maxSize THEN [written |-> size, err |-> "EOF"]
    ELSE [written |-> maxSize, err |-> "nil"]

(* The file system: a set of records, one for each path that exists.  size  *)
(* is the number of bytes a file holds, srcSize the size of the archive     *)
(* entry it was written from, fromEntry whether an archive entry made it.   *)
DirNode(p, e) ==
    [path |-> p, kind |-> "dir", size |-> 0, srcSize |-> 0, fromEntry |-> e]

FileNode(p, n, src) ==
    [path |-> p, kind |-> "file", size |-> n, srcSize |-> src, fromEntry |-> TRUE]

Exists(fsys, p) == \E f \in fsys : f.path = p
IsFileAt(fsys, p) == \E f \in fsys : f.path = p /\ f.kind = "file"
IsDirAt(fsys, p) == \E f \in fsys : f.path = p /\ f.kind = "dir"

\* a rooted path and the directories above it
Ancestors(p) ==
    LET comps == Components(p)
    IN  {Slash \o JoinSlash(SubSeq(comps, 1, k)) : k \in 0..Len(comps)}

\* os.MkdirAll: fails when a file is in the way, makes what is missing
MkdirAll(fsys, p, e) ==
    IF \E a \in Ancestors(p) : IsFileAt(fsys, a)
    THEN [ok |-> FALSE, fs |-> fsys]
    ELSE [ok |-> TRUE,
          fs |-> fsys \cup {DirNode(a, e) : a \in {b \in Ancestors(p) : ~Exists(fsys, b)}}]

\* the file system before extraction: the root and the temporary directory
InitialFS == {DirNode(a, FALSE) : a \in Ancestors(tempDir)}

\* the names the entries of the archive are drawn from
NameTokens ==
    { <<".", ".", "/">>,
      <<".", ".", "/", "e", "x", "t", "r", "a", "c", "t", "e", "d">>,
      <<"x">>, <<"a">>, Slash }

MaxNameTokens == 2
MaxEntries == 2

NameTokenSeqs == UNION {[1..n -> NameTokens] : n \in 0..MaxNameTokens}
EntryNames == {Flatten(ts) : ts \in NameTokenSeqs}
EntrySizes == {0, maxSize, maxSize + 1}

\* FileHeader.Mode: a name that ends in a separator is a directory
EndsWithSlash(name) == name # <<>> /\ name[Len(name)] = "/"

InitExtract ==
    /\ xpc = "open"
    /\ impl \in {"processor", "parser"}
    /\ nEntries \in 0..MaxEntries
    /\ xk = 0
    /\ fs = InitialFS
    /\ xlast = <<>>
    /\ xerr = "none"
    /\ tpc = "idle" /\ title = <<>> /\ chapterNum = 0 /\ once = <<>> /\ twice = <<>>
    /\ pc = "idle" /\ EnhancedMode = FALSE /\ nDocs = 0 /\ nVaried = 0
    /\ filler = Chapter(<<>>, <<>>) /\ chapters = <<>> /\ idx = 0
    /\ currentChapter = <<>> /\ consolidated = <<>> /\ accDocs = <<>>
    /\ lastOp = "none" /\ minStd = minChapterLength /\ minAlt = minChapterLength
    /\ currentAlt = <<>> /\ consolidatedAlt = <<>> /\ chaptersToProcess = <<>>
    /\ written = {} /\ bookChapters = <<>> /\ manifest = <<>> /\ spine = <<>>
    /\ result = "none"
    /\ zpc = "idle" /\ tree = {} /\ walk = <<>> /\ zip = <<>> /\ zerr = "none"
    /\ output = "none"
    /\ CoverImage = <<>> /\ Images = <<>> /\ Fonts = <<>>
    /\ formatFiles = {} /\ extracted = {} /\ oebps = {} /\ nav = <<>> /\ ncx = <<>>
    /\ recovered = <<>>
    /\ ppc = "idle" /\ descriptor = <<>> /\ gap = <<>> /\ section = <<>> /\ itemStart = 0
    /\ bookManifest = <<>> /\ bookSpine = <<>> /\ bookGuide = <<>> /\ Stylesheets = <<>>
    /\ Chapters = <<>> /\ firstRun = <<>>
    /\ contentOPFPath = <<>> /\ cpc = "idle" /\ document = <<>> /\ sel = 0
    /\ htmlContent = <<>> /\ returned = <<>>

\* zip.OpenReader and the creation of the extraction directory
OpenReader ==
    /\ xpc = "open"
    /\ \E valid \in BOOLEAN :
         LET m == MkdirAll(fs, extractPath, FALSE)
         IN  IF ~valid
             THEN xpc' = "failed" /\ xerr' = "open" /\ fs' = fs
             ELSE IF ~m.ok
             THEN xpc' = "failed" /\ xerr' = "mkdir" /\ fs' = fs
             ELSE xpc' = "loop" /\ xerr' = xerr /\ fs' = m.fs
    /\ UNCHANGED <<impl, nEntries, xk, xlast>>
    /\ UNCHANGED <<titleVars, consVars, zipVars, bookVars, docVars, parseVars, callVars>>

\* one iteration of the loop over reader.File
ExtractEntry ==
    /\ xpc = "loop"
    /\ xk < nEntries
    /\ \E name \in EntryNames, dirAttr \in BOOLEAN, size \in EntrySizes, fault \in BOOLEAN :
         LET filePath == Join(extractPath, name)
             isDir == dirAttr \/ EndsWithSlash(name)
             made == MkdirAll(fs, filePath, TRUE)
             parent == MkdirAll(fs, Dir(filePath), TRUE)
             copied == CopyN(size, fault)
         IN  /\ xlast' = [path |-> filePath, isDir |-> isDir,
                          size |-> IF isDir THEN 0 ELSE size]
             /\ IF ~LegalPath(impl, filePath)
                THEN xpc' = "failed" /\ xerr' = "illegal path" /\ fs' = fs
                ELSE IF isDir
                THEN IF impl = "parser" /\ ~made.ok
                     THEN xpc' = "failed" /\ xerr' = "mkdir" /\ fs' = fs
                     ELSE xpc' = xpc /\ xerr' = xerr /\ fs' = made.fs
                ELSE IF ~parent.ok
                THEN xpc' = "failed" /\ xerr' = "mkdir" /\ fs' = fs
                ELSE IF IsDirAt(parent.fs, filePath)
                THEN xpc' = "failed" /\ xerr' = "create" /\ fs' = parent.fs
                ELSE /\ fs' = {f \in parent.fs : f.path # filePath}
                              \cup {FileNode(filePath, copied.written, size)}
                     /\ IF copied.err # "nil" /\ copied.err # "EOF"
                        THEN xpc' = "failed" /\ xerr' = "copy"
                        ELSE xpc' = xpc /\ xerr' = xerr
    /\ xk' = xk + 1
    /\ UNCHANGED <<impl, nEntries>>
    /\ UNCHANGED <<titleVars, consVars, zipVars, bookVars, docVars, parseVars, callVars>>

\* return extractPath, nil
ExtractReturn ==
    /\ xpc = "loop"
    /\ xk = nEntries
    /\ xpc' = "ok"
    /\ UNCHANGED <<impl, nEntries, xk, fs, xlast, xerr>>
    /\ UNCHANGED <<titleVars, consVars, zipVars, bookVars, docVars, parseVars, callVars>>

----------------------------------------------------------------------------
(* createEPUB *)

(* In this part a path is the sequence of its elements.  The files of the *)
(* restructured directory are held by their path relative to it.          *)

\* restructuredPath := filepath.Join(tempDir, "restructured")
restructuredPath == <<"t", "restructured">>

\* mimetypePath := filepath.Join(restructuredPath, "mimetype")
mimetypePath == restructuredPath \o <<"mimetype">>

MimetypeLiteral == "application/epub+zip"

File(rel, content) == [path |-> rel, isDir |-> FALSE, content |-> content]
Directory(rel) == [path |-> rel, isDir |-> TRUE, content |-> ""]

\* what createStandardStructure leaves in the restructured directory
StandardStructure ==
    { Directory(<<>>),
      Directory(<<"META-INF">>),
      File(<<"META-INF", "container.xml">>, "container"),
      File(<<"mimetype">>, MimetypeLiteral),
      Directory(<<"OEBPS">>),
      Directory(<<"OEBPS", "images">>),
      Directory(<<"OEBPS", "styles">>),
      Directory(<<"OEBPS", "fonts">>),
      Directory(<<"OEBPS", "chapters">>) }

\* the files processContent writes for every book
GeneratedFiles ==
    { File(<<"OEBPS", "styles", "stylesheet.css">>, "css"),
      File(<<"OEBPS", "content.opf">>, "opf"),
      File(<<"OEBPS", "nav.xhtml">>, "nav"),
      File(<<"OEBPS", "toc.ncx">>, "ncx") }

\* the files that depend on the book: a chapter, and images under their base
\* names, one of them an image called mimetype
BookFiles ==
    { File(<<"OEBPS", "chapters", "chapter_001.xhtml">>, "chapter"),
      File(<<"OEBPS", "images", "mimetype">>, "image"),
      File(<<"OEBPS", "images", "mimetype">>, MimetypeLiteral) }

\* no two files of a directory tree have the same path
DistinctPaths(files) == \A f, g \in files : f.path = g.path => f = g

\* the names in use, in the order of their bytes
NameOrder ==
    << "META-INF", "OEBPS", "chapter_001.xhtml", "chapters", "container.xml",
       "content.opf", "fonts", "images", "mimetype", "nav.xhtml", "styles",
       "stylesheet.css", "toc.ncx" >>

Rank(name) == CHOOSE i \in 1..Len(NameOrder) : NameOrder[i] = name

\* p is visited before q: a directory before what it holds, the entries of a
\* directory in lexical order
RECURSIVE WalkBefore(_, _)
WalkBefore(p, q) ==
    IF p = <<>> THEN q # <<>>
    ELSE IF q = <<>> THEN FALSE
    ELSE IF Head(p) = Head(q) THEN WalkBefore(Tail(p), Tail(q))
    ELSE Rank(Head(p)) < Rank(Head(q))

\* the paths filepath.Walk hands to its callback, in order
RECURSIVE WalkOrder(_)
WalkOrder(paths) ==
    IF paths = {} THEN <<>>
    ELSE LET first == CHOOSE p \in paths : \A q \in paths \ {p} : WalkBefore(p, q)
         IN  <<restructuredPath \o first>> \o WalkOrder(paths \ {first})

\* filepath.Rel for a path under base
Rel(base, path) == SubSeq(path, Len(base) + 1, Len(path))

\* the file of the tree at an absolute path
FileAt(t, path) == CHOOSE f \in t : f.path = Rel(restructuredPath, path)

\* the compression method addFileToZip sets in the header
MethodAlwaysDeflate(compress) == "Deflate"

Method(compress) == IF compress THEN "Deflate" ELSE "Store"

(* addFileToZip on the archive z.  outcome is what the operating system does: *)
(* "ok", "open" (the file cannot be opened: no entry is made) or "copy" (the  *)
(* copy fails after the header: the entry is left with part of the content).  *)
addFileToZip(z, t, filePath, zipPath, compress, outcome) ==
    IF outcome = "open" THEN [zip |-> z, err |-> "open"]
    ELSE [zip |-> Append(z, [name |-> zipPath, method |-> Method(compress),
                            content |-> IF outcome = "ok"
                                        THEN FileAt(t, filePath).content
                                        ELSE "partial"]),
          err |-> IF outcome = "ok" THEN "none" ELSE "copy"]

Outcomes == {"ok", "open", "copy"}

InitZip ==
    /\ zpc = "restructure"
    /\ tree = {}
    /\ walk = <<>>
    /\ zip = <<>>
    /\ zerr = "none"
    /\ output = "none"
    /\ CoverImage = <<>> /\ Images = <<>> /\ Fonts = <<>>
    /\ formatFiles = {} /\ extracted = {} /\ oebps = {} /\ nav = <<>> /\ ncx = <<>>
    /\ recovered = <<>>
    /\ ppc = "idle" /\ descriptor = <<>> /\ gap = <<>> /\ section = <<>> /\ itemStart = 0
    /\ bookManifest = <<>> /\ bookSpine = <<>> /\ bookGuide = <<>> /\ Stylesheets = <<>>
    /\ Chapters = <<>> /\ firstRun = <<>>
    /\ tpc = "idle" /\ title = <<>> /\ chapterNum = 0 /\ once = <<>> /\ twice = <<>>
    /\ pc = "idle" /\ EnhancedMode = FALSE /\ nDocs = 0 /\ nVaried = 0
    /\ filler = Chapter(<<>>, <<>>) /\ chapters = <<>> /\ idx = 0
    /\ currentChapter = <<>> /\ consolidated = <<>> /\ accDocs = <<>>
    /\ lastOp = "none" /\ minStd = minChapterLength /\ minAlt = minChapterLength
    /\ currentAlt = <<>> /\ consolidatedAlt = <<>> /\ chaptersToProcess = <<>>
    /\ written = {} /\ bookChapters = <<>> /\ manifest = <<>> /\ spine = <<>>
    /\ result = "none"
    /\ xpc = "idle" /\ impl = "none" /\ nEntries = 0 /\ xk = 0 /\ fs = {}
    /\ xlast = <<>> /\ xerr = "none"
    /\ contentOPFPath = <<>> /\ cpc = "idle" /\ document = <<>> /\ sel = 0
    /\ htmlContent = <<>> /\ returned = <<>>

\* Restructure: the standard structure, then the content of the book
RestructureTree ==
    /\ zpc = "restructure"
    /\ \E ok \in BOOLEAN, files \in SUBSET BookFiles :
         /\ DistinctPaths(files)
         /\ IF ok
            THEN /\ tree' = StandardStructure \cup GeneratedFiles \cup files
                 /\ zpc' = "create"
                 /\ zerr' = zerr
            ELSE /\ tree' = StandardStructure
                 /\ zpc' = "failed"
                 /\ zerr' = "restructure"
    /\ UNCHANGED <<walk, zip, output>>
    /\ UNCHANGED <<titleVars, consVars, extractVars, bookVars, docVars, parseVars, callVars>>

\* createEPUB up to the call of filepath.Walk; os.Create makes the file at the
\* output path, and nothing on the way out of createEPUB or Process removes it
CreateEPUBStart ==
    /\ zpc = "create"
    /\ \E created \in BOOLEAN, outcome \in Outcomes :
         LET added == addFileToZip(<<>>, tree, mimetypePath, <<"mimetype">>, FALSE, outcome)
         IN  IF ~created
             THEN /\ zpc' = "failed" /\ zerr' = "create" /\ zip' = zip /\ walk' = walk
                  /\ output' = output
             ELSE /\ zip' = added.zip
                  /\ output' = "created"
                  /\ IF added.err # "none"
                     THEN zpc' = "failed" /\ zerr' = "mimetype" /\ walk' = walk
                     ELSE /\ zpc' = "walk"
                          /\ zerr' = zerr
                          /\ walk' = WalkOrder({f.path : f \in tree})
    /\ UNCHANGED tree
    /\ UNCHANGED <<titleVars, consVars, extractVars, bookVars, docVars, parseVars, callVars>>

\* one call of the function handed to filepath.Walk
WalkFile ==
    /\ zpc = "walk"
    /\ walk # <<>>
    /\ \E outcome \in Outcomes :
         LET path == Head(walk)
             added == addFileToZip(zip, tree, path, Rel(restructuredPath, path),
                                   TRUE, outcome)
         IN  IF FileAt(tree, path).isDir \/ path = mimetypePath
             THEN zip' = zip /\ walk' = Tail(walk) /\ zpc' = zpc /\ zerr' = zerr
             ELSE /\ zip' = added.zip
                  /\ IF added.err # "none"
                     THEN zpc' = "failed" /\ zerr' = "walk" /\ walk' = walk
                     ELSE zpc' = zpc /\ zerr' = zerr /\ walk' = Tail(walk)
    /\ UNCHANGED <<tree, output>>
    /\ UNCHANGED <<titleVars, consVars, extractVars, bookVars, docVars, parseVars, callVars>>

\* the walk is over: return nil
CreateEPUBReturn ==
    /\ zpc = "walk"
    /\ walk = <<>>
    /\ zpc' = "ok"
    /\ UNCHANGED <<tree, walk, zip, zerr, output>>
    /\ UNCHANGED <<titleVars, consVars, extractVars, bookVars, docVars, parseVars, callVars>>

----------------------------------------------------------------------------
(* ParseEPUB *)

(* A package descriptor is held by what it declares: items, the <item/>       *)
(* elements of the manifest in document order, refs, the idref of each        *)
(* <itemref/> of the spine, and guide, the <reference/> elements.  Book.Spine *)
(* is held as the sequence of its IDRef, and a chapter of book.Chapters by    *)
(* the href of the document it was read from.                                 *)

\* a <reference/> of the guide
Reference(type, href) == [type |-> type, href |-> href]

ItemKinds ==
    { Item(<<"c","1">>, <<"c","1",".","x","h","t","m","l">>, <<"a","p","p","l","i","c","a","t","i","o","n","/","x","h","t","m","l","+","x","m","l">>, <<>>),
      Item(<<"c","o","v","e","r">>, <<"c","o","v","e","r",".","j","p","g">>, <<"i","m","a","g","e","/","j","p","e","g">>, <<"c","o","v","e","r","-","i","m","a","g","e">>),
      Item(<<"i","m","g">>, <<"i",".","p","n","g">>, <<"i","m","a","g","e","/","p","n","g">>, <<"c","o","v","e","r","-","i","m","a","g","e">>),
      Item(<<"c","o","v","e","r","2">>, <<"x",".","p","n","g">>, <<"i","m","a","g","e","/","p","n","g">>, <<>>),
      Item(<<"m","y","c","o","v","e","r">>, <<"y",".","p","n","g">>, <<"i","m","a","g","e","/","p","n","g">>, <<>>),
      Item(<<"p","i","c">>, <<"c","o","v","e","r",".","p","n","g">>, <<"i","m","a","g","e","/","p","n","g">>, <<>>),
      Item(<<"c","s","s">>, <<"s",".","c","s","s">>, <<"t","e","x","t","/","c","s","s">>, <<>>),
      Item(<<"f">>, <<"f",".","w","o","f","f">>, <<"a","p","p","l","i","c","a","t","i","o","n","/","f","o","n","t","-","w","o","f","f">>, <<>>) }

\* the identifiers a spine refers to: two that ItemKinds declares and one that
\* no manifest declares
RefKinds == {<<"c","1">>, <<"c","s","s">>, <<"g","o","n","e">>}

\* the guides: none, a cover entry for y.png, a text entry
GuideKinds ==
    { <<>>, << Reference(<<"c","o","v","e","r">>, <<"y",".","p","n","g">>) >>, << Reference(<<"t","e","x","t">>, <<"c","1",".","x","h","t","m","l">>) >> }

MaxItems == 2
MaxRefs == 2

Descriptors ==
    [items : SeqsUpTo(ItemKinds, MaxItems), refs : SeqsUpTo(RefKinds, MaxRefs),
     guide : GuideKinds]

\* the files of the extracted directory when every href of the manifest resolves
DeclaredFiles(d) == {Join(bookPath, d.items[i].href) : i \in 1..Len(d.items)}

\* what findContentOPF returns: book.Path joined with the full-path of
\* container.xml, for a descriptor at the root of the archive and for one in
\* the directory OEBPS
ContentOPFPaths ==
    {Join(bookPath, <<"c","o","n","t","e","n","t",".","o","p","f">>),
     Join(bookPath, <<"O","E","B","P","S","/","c","o","n","t","e","n","t",".","o","p","f">>)}

\* the files of the extracted directory of a package whose descriptor is at
\* opf: every href of the manifest names a file beside the descriptor
PackageFiles(d, opf) == {Join(Dir(opf), d.items[i].href) : i \in 1..Len(d.items)}

\* the orders in which a range over a Go map may yield the elements of S
Perms(S) ==
    {p \in [1..Cardinality(S) -> S] : \A i, j \in 1..Cardinality(S) : p[i] = p[j] => i = j}

\* the Href of the last item of the descriptor with the property cover-image,
\* <<>> for none: the manifest loop of ParseEPUB assigns book.CoverImage at each
FlaggedCover(items) ==
    LET at == {i \in 1..Len(items) : items[i].properties = <<"c","o","v","e","r","-","i","m","a","g","e">>}
    IN  IF at = {} THEN <<>> ELSE items[CHOOSE i \in at : \A j \in at : j <= i].href

\* the lists a range over book.Manifest may append to prev: the Href of every
\* item whose media type contains sub, in any order
findByMediaType(man, sub, prev) ==
    {prev \o p :
        p \in Perms({man[id].href : id \in {x \in DOMAIN man : Contains(man[x].mediaType, sub)}})}

\* the manifest items the guide entries of type cover lead to: for the first
\* such entry that some Href is a suffix of, every item with such an Href
RECURSIVE GuideCovers(_, _)
GuideCovers(guide, man) ==
    IF guide = <<>> THEN {}
    ELSE LET hit == {id \in DOMAIN man : HasSuffix(Head(guide).href, man[id].href)}
         IN  IF Head(guide).type = <<"c","o","v","e","r">> /\ hit # {}
             THEN {man[id].href : id \in hit}
             ELSE GuideCovers(Tail(guide), man)

\* the values findCoverImage may leave in book.CoverImage: each loop ranges
\* over the map and returns at its first match
findCoverImage(man, guide) ==
    LET flagged == {id \in DOMAIN man : Contains(man[id].properties, <<"c","o","v","e","r","-","i","m","a","g","e">>)}
        named == {id \in DOMAIN man :
                     Contains(id, <<"c","o","v","e","r">>) /\ Contains(man[id].mediaType, <<"i","m","a","g","e">>)}
    IN  IF flagged # {} THEN {man[id].href : id \in flagged}
        ELSE IF GuideCovers(guide, man) # {} THEN GuideCovers(guide, man)
        ELSE IF named # {} THEN {man[id].href : id \in named}
        ELSE {<<>>}

\* the state when ParseEPUB has read content.opf
InitParse ==
    /\ ppc = "read"
    /\ descriptor \in Descriptors
    /\ contentOPFPath \in ContentOPFPaths
    /\ extracted \in {PackageFiles(descriptor, contentOPFPath), {}}
    /\ gap = <<>>
    /\ section = <<>>
    /\ itemStart = 0
    /\ bookManifest = <<>>
    /\ bookSpine = <<>>
    /\ bookGuide = <<>>
    /\ Stylesheets = <<>>
    /\ Chapters = <<>>
    /\ firstRun = <<>>
    /\ CoverImage = <<>>
    /\ Images = <<>>
    /\ Fonts = <<>>
    /\ formatFiles = {} /\ oebps = {} /\ nav = <<>> /\ ncx = <<>> /\ recovered = <<>>
    /\ tpc = "idle" /\ title = <<>> /\ chapterNum = 0 /\ once = <<>> /\ twice = <<>>
    /\ pc = "idle" /\ EnhancedMode = FALSE /\ nDocs = 0 /\ nVaried = 0
    /\ filler = Chapter(<<>>, <<>>) /\ chapters = <<>> /\ idx = 0
    /\ currentChapter = <<>> /\ consolidated = <<>> /\ accDocs = <<>>
    /\ lastOp = "none" /\ minStd = minChapterLength /\ minAlt = minChapterLength
    /\ currentAlt = <<>> /\ consolidatedAlt = <<>> /\ chaptersToProcess = <<>>
    /\ written = {} /\ bookChapters = <<>> /\ manifest = <<>> /\ spine = <<>>
    /\ result = "none"
    /\ xpc = "idle" /\ impl = "none" /\ nEntries = 0 /\ xk = 0 /\ fs = {}
    /\ xlast = <<>> /\ xerr = "none"
    /\ zpc = "idle" /\ tree = {} /\ walk = <<>> /\ zip = <<>> /\ zerr = "none"
    /\ output = "none"
    /\ cpc = "idle" /\ document = <<>> /\ sel = 0
    /\ htmlContent = <<>> /\ returned = <<>>

\* ParseEPUB when xml.Unmarshal accepts the descriptor: the manifest, the spine
\* and the guide are taken over, then findChapters, findStylesheets,
\* findImages, findFonts and, with no cover yet, findCoverImage
ParseStrict ==
    /\ ppc = "read"
    /\ LET man == ManifestOf(descriptor.items)
           found == findChapters(descriptor.refs, man, extracted, <<>>)
       IN  /\ bookManifest' = man
           /\ bookSpine' = descriptor.refs
           /\ bookGuide' = descriptor.guide
           /\ Chapters' = found.Chapters
           /\ IF found.err
              THEN /\ ppc' = "failed"
                   /\ CoverImage' = FlaggedCover(descriptor.items)
                   /\ UNCHANGED <<Stylesheets, Images, Fonts>>
              ELSE /\ ppc' = "parsed"
                   /\ Stylesheets' \in findByMediaType(man, <<"c","s","s">>, <<>>)
                   /\ Images' \in findByMediaType(man, <<"i","m","a","g","e">>, <<>>)
                   /\ Fonts' \in findByMediaType(man, <<"f","o","n","t">>, <<>>)
                   /\ CoverImage' \in
                          IF FlaggedCover(descriptor.items) # <<>>
                          THEN {FlaggedCover(descriptor.items)}
                          ELSE findCoverImage(man, descriptor.guide)
    /\ UNCHANGED <<descriptor, gap, section, itemStart, firstRun>>
    /\ UNCHANGED <<docVars>>
    /\ UNCHANGED <<titleVars, consVars, extractVars, zipVars, callVars>>

\* the four classification functions called once more on the Book returned
Reclassify ==
    /\ ppc = "parsed"
    /\ firstRun' = [Stylesheets |-> Stylesheets, Images |-> Images, Fonts |-> Fonts,
                    Chapters |-> Chapters, Manifest |-> bookManifest, Spine |-> bookSpine]
    /\ LET found == findChapters(bookSpine, bookManifest, extracted, Chapters)
       IN  /\ Chapters' = found.Chapters
           /\ ppc' = IF found.err THEN "failed" ELSE "reclassified"
    /\ Stylesheets' \in findByMediaType(bookManifest, <<"c","s","s">>, Stylesheets)
    /\ Images' \in findByMediaType(bookManifest, <<"i","m","a","g","e">>, Images)
    /\ Fonts' \in findByMediaType(bookManifest, <<"f","o","n","t">>, Fonts)
    /\ UNCHANGED <<descriptor, gap, section, itemStart, bookManifest, bookSpine, bookGuide>>
    /\ UNCHANGED <<CoverImage, docVars>>
    /\ UNCHANGED <<titleVars, consVars, extractVars, zipVars, callVars>>

----------------------------------------------------------------------------
(* parseContentOPFManually *)

\* strings.Index: the offset of the first sub in s, counted from 0, or -1
Index(s, sub) ==
    LET at == {i \in 1..(Len(s) - Len(sub) + 1) : SubSeq(s, i, i + Len(sub) - 1) = sub}
    IN  IF at = {} THEN -1 ELSE (CHOOSE i \in at : \A j \in at : i <= j) - 1

\* s[a:b] and s[a:] of Go, for 0 <= a <= b <= len(s)
Slice(s, a, b) == SubSeq(s, a + 1, b)
From(s, a) == SubSeq(s, a + 1, Len(s))

\* the descriptor as text, its elements separated by g.  The title holds a bare
\* ampersand, which is what makes xml.Unmarshal reject the text.
RenderItem(it) ==
    <<"<","i","t","e","m"," ","i","d","=","\"">> \o it.id \o <<"\""," ","h","r","e","f","=","\"">> \o it.href \o <<"\""," ","m","e","d","i","a","-","t","y","p","e","=","\"">> \o it.mediaType \o <<"\"">>
    \o (IF it.properties = <<>> THEN <<>> ELSE <<" ","p","r","o","p","e","r","t","i","e","s","=","\"">> \o it.properties \o <<"\"">>)
    \o <<"/",">">>

RenderRef(IDRef) == <<"<","i","t","e","m","r","e","f"," ","i","d","r","e","f","=","\"">> \o IDRef \o <<"\"","/",">">>

RenderReference(r) ==
    <<"<","r","e","f","e","r","e","n","c","e"," ","t","y","p","e","=","\"">> \o r.type \o <<"\""," ","t","i","t","l","e","=","\"","T","\""," ","h","r","e","f","=","\"">> \o r.href \o <<"\"","/",">">>

Render(d, g) ==
    <<"<","p","a","c","k","a","g","e",">","<","m","e","t","a","d","a","t","a",">","<","d","c",":","t","i","t","l","e",">","A"," ","&"," ","B","<","/","d","c",":","t","i","t","l","e",">","<","/","m","e","t","a","d","a","t","a",">">>
    \o <<"<","m","a","n","i","f","e","s","t",">">>
    \o Flatten([i \in 1..Len(d.items) |-> g \o RenderItem(d.items[i])]) \o g
    \o <<"<","/","m","a","n","i","f","e","s","t",">">>
    \o <<"<","s","p","i","n","e"," ","t","o","c","=","\"","n","c","x","\"",">">>
    \o Flatten([i \in 1..Len(d.refs) |-> g \o RenderRef(d.refs[i])]) \o g
    \o <<"<","/","s","p","i","n","e",">">>
    \o (IF d.guide = <<>> THEN <<>>
        ELSE <<"<","g","u","i","d","e",">">>
             \o Flatten([i \in 1..Len(d.guide) |-> g \o RenderReference(d.guide[i])]) \o g
             \o <<"<","/","g","u","i","d","e",">">>)
    \o <<"<","/","p","a","c","k","a","g","e",">">>

\* the passes of a loop that never ends are followed until book.Spine or
\* book.Guide holds this many elements
MaxScanned == 4

\* the white space between two elements: none, or a line break and two blanks
Gaps == {<<>>, <<"\n", " ", " ">>}

\* whether the text has a section from open up to close: "none" when open is
\* not found, "unclosed" when close is not found after it
SectionState(text, open, close) ==
    IF Index(text, open) = -1 THEN "none"
    ELSE IF Index(From(text, Index(text, open)), close) = -1 THEN "unclosed"
    ELSE "found"

\* the section of the text from open up to close
Section(text, open, close) ==
    LET start == Index(text, open)
        end == Index(From(text, start), close)
    IN  Slice(text, start, end + start)

(* One pass of the loop of parseManifestManually, parseSpineManually and     *)
(* parseGuideManually from the offset start: the offset of open in the rest  *)
(* of the section is doubled (itemStart += itemStart), the element runs from *)
(* there to the next "/>".  A slice from beyond the end of the section is a  *)
(* run-time panic.                                                            *)
ScanItem(sec, start, open) ==
    LET rel == Index(From(sec, start), open)
        doubled == rel + rel
        itemEnd == Index(From(sec, doubled), <<"/",">">>) + doubled
    IN  IF rel = -1 THEN [op |-> "break"]
        ELSE IF doubled > Len(sec) THEN [op |-> "panic"]
        ELSE IF Index(From(sec, doubled), <<"/",">">>) = -1 THEN [op |-> "break"]
        ELSE [op |-> "item", item |-> Slice(sec, doubled, itemEnd), next |-> itemEnd + 2]

\* the value of the attribute name (written with its "=") in the text of an
\* element: from one character after the name to the next quote
Attr(item, name) ==
    LET start == Index(item, name) + Len(name) + 1
        end == Index(From(item, start), <<"\"">>)
    IN  IF ~Contains(item, name) \/ end = -1 THEN <<>>
        ELSE Slice(item, start, start + end)

\* the element ends before that character: the slice item[start:] is a
\* run-time panic
AttrPanics(item, name) ==
    Contains(item, name) /\ Index(item, name) + Len(name) + 1 > Len(item)

\* the descriptors the text scan is followed on: a document, a flagged cover
\* and a stylesheet in the manifest
ScannedDescriptors ==
    {d \in Descriptors :
        \A i \in 1..Len(d.items) :
            d.items[i].id \in {<<"c","1">>, <<"c","o","v","e","r">>, <<"c","s","s">>}}

\* the state when xml.Unmarshal has rejected the text of content.opf
InitFallback ==
    /\ ppc = "rejected"
    /\ descriptor \in ScannedDescriptors
    /\ gap \in Gaps
    /\ extracted = {}
    /\ section = <<>>
    /\ itemStart = 0
    /\ bookManifest = <<>>
    /\ bookSpine = <<>>
    /\ bookGuide = <<>>
    /\ Stylesheets = <<>>
    /\ Chapters = <<>>
    /\ firstRun = <<>>
    /\ CoverImage = <<>>
    /\ Images = <<>>
    /\ Fonts = <<>>
    /\ formatFiles = {} /\ oebps = {} /\ nav = <<>> /\ ncx = <<>> /\ recovered = <<>>
    /\ tpc = "idle" /\ title = <<>> /\ chapterNum = 0 /\ once = <<>> /\ twice = <<>>
    /\ pc = "idle" /\ EnhancedMode = FALSE /\ nDocs = 0 /\ nVaried = 0
    /\ filler = Chapter(<<>>, <<>>) /\ chapters = <<>> /\ idx = 0
    /\ currentChapter = <<>> /\ consolidated = <<>> /\ accDocs = <<>>
    /\ lastOp = "none" /\ minStd = minChapterLength /\ minAlt = minChapterLength
    /\ currentAlt = <<>> /\ consolidatedAlt = <<>> /\ chaptersToProcess = <<>>
    /\ written = {} /\ bookChapters = <<>> /\ manifest = <<>> /\ spine = <<>>
    /\ result = "none"
    /\ xpc = "idle" /\ impl = "none" /\ nEntries = 0 /\ xk = 0 /\ fs = {}
    /\ xlast = <<>> /\ xerr = "none"
    /\ zpc = "idle" /\ tree = {} /\ walk = <<>> /\ zip = <<>> /\ zerr = "none"
    /\ output = "none"
    /\ contentOPFPath = <<>> /\ cpc = "idle" /\ document = <<>> /\ sel = 0
    /\ htmlContent = <<>> /\ returned = <<>>

\* where the scan goes when a loop ends: the next section, "failed" when a
\* section that must be there is missing or not closed
EnterSection(open, close, optional, loop, after) ==
    LET state == SectionState(Render(descriptor, gap), open, close)
    IN  /\ itemStart' = 0
        /\ IF state = "none" /\ optional THEN ppc' = after /\ section' = <<>>
           ELSE IF state # "found" THEN ppc' = "failed" /\ section' = <<>>
           ELSE ppc' = loop /\ section' = Section(Render(descriptor, gap), open, close)

\* parseContentOPFManually up to the loop of parseManifestManually
ParseManually ==
    /\ ppc = "rejected"
    /\ SectionState(Render(descriptor, gap), <<"<","m","e","t","a","d","a","t","a">>,
                    <<"<","/","m","e","t","a","d","a","t","a",">">>) = "found"
    /\ EnterSection(<<"<","m","a","n","i","f","e","s","t">>, <<"<","/","m","a","n","i","f","e","s","t",">">>, FALSE, "manifest", "failed")
    /\ UNCHANGED <<descriptor, gap, bookManifest, bookSpine, bookGuide, Stylesheets,
                   Chapters, firstRun>>
    /\ UNCHANGED <<bookVars, docVars>>
    /\ UNCHANGED <<titleVars, consVars, extractVars, zipVars, callVars>>

\* one pass of the loop of parseManifestManually; at its end parseSpineManually
\* up to its loop
ManifestItemScan ==
    /\ ppc = "manifest"
    /\ LET scan == ScanItem(section, itemStart, <<"<","i","t","e","m">>)
           id == Attr(scan.item, <<"i","d","=">>)
           href == Attr(scan.item, <<"h","r","e","f","=">>)
           mediaType == Attr(scan.item, <<"m","e","d","i","a","-","t","y","p","e","=">>)
           properties == Attr(scan.item, <<"p","r","o","p","e","r","t","i","e","s","=">>)
       IN  IF scan.op = "break"
           THEN /\ EnterSection(<<"<","s","p","i","n","e">>, <<"<","/","s","p","i","n","e",">">>, FALSE, "spine", "failed")
                /\ UNCHANGED <<bookManifest, CoverImage>>
           ELSE IF scan.op = "panic"
                   \/ \E name \in {<<"i","d","=">>, <<"h","r","e","f","=">>, <<"m","e","d","i","a","-","t","y","p","e","=">>,
                                   <<"p","r","o","p","e","r","t","i","e","s","=">>} : AttrPanics(scan.item, name)
           THEN /\ ppc' = "panic"
                /\ UNCHANGED <<section, itemStart, bookManifest, CoverImage>>
           ELSE /\ bookManifest' =
                       IF id # <<>> /\ href # <<>>
                       THEN [x \in DOMAIN bookManifest \cup {id} |->
                                IF x = id THEN Item(id, href, mediaType, properties)
                                ELSE bookManifest[x]]
                       ELSE bookManifest
                /\ CoverImage' = IF properties = <<"c","o","v","e","r","-","i","m","a","g","e">> THEN href ELSE CoverImage
                /\ itemStart' = scan.next
                /\ UNCHANGED <<ppc, section>>
    /\ UNCHANGED <<descriptor, gap, bookSpine, bookGuide, Stylesheets, Chapters, firstRun>>
    /\ UNCHANGED <<Images, Fonts, docVars>>
    /\ UNCHANGED <<titleVars, consVars, extractVars, zipVars, callVars>>

\* one pass of the loop of parseSpineManually; at its end parseGuideManually
\* up to its loop
SpineItemScan ==
    /\ ppc = "spine"
    /\ Len(bookSpine) < MaxScanned
    /\ LET scan == ScanItem(section, itemStart, <<"<","i","t","e","m","r","e","f">>)
           IDRef == Attr(scan.item, <<"i","d","r","e","f","=">>)
       IN  IF scan.op = "break"
           THEN /\ EnterSection(<<"<","g","u","i","d","e">>, <<"<","/","g","u","i","d","e",">">>, TRUE, "guide", "scanned")
                /\ UNCHANGED bookSpine
           ELSE IF scan.op = "panic"
                   \/ \E name \in {<<"i","d","r","e","f","=">>, <<"l","i","n","e","a","r","=">>,
                                   <<"p","r","o","p","e","r","t","i","e","s","=">>} : AttrPanics(scan.item, name)
           THEN /\ ppc' = "panic"
                /\ UNCHANGED <<section, itemStart, bookSpine>>
           ELSE /\ bookSpine' = IF IDRef # <<>> THEN Append(bookSpine, IDRef) ELSE bookSpine
                /\ itemStart' = scan.next
                /\ UNCHANGED <<ppc, section>>
    /\ UNCHANGED <<descriptor, gap, bookManifest, bookGuide, Stylesheets, Chapters, firstRun>>
    /\ UNCHANGED <<bookVars, docVars>>
    /\ UNCHANGED <<titleVars, consVars, extractVars, zipVars, callVars>>

\* one pass of the loop of parseGuideManually; at its end
\* parseContentOPFManually returns
GuideItemScan ==
    /\ ppc = "guide"
    /\ Len(bookGuide) < MaxScanned
    /\ LET scan == ScanItem(section, itemStart, <<"<","r","e","f","e","r","e","n","c","e">>)
           type == Attr(scan.item, <<"t","y","p","e","=">>)
           href == Attr(scan.item, <<"h","r","e","f","=">>)
       IN  IF scan.op = "break"
           THEN /\ ppc' = "scanned"
                /\ UNCHANGED <<section, itemStart, bookGuide>>
           ELSE IF scan.op = "panic"
                   \/ \E name \in {<<"t","y","p","e","=">>, <<"t","i","t","l","e","=">>, <<"h","r","e","f","=">>} :
                          AttrPanics(scan.item, name)
           THEN /\ ppc' = "panic"
                /\ UNCHANGED <<section, itemStart, bookGuide>>
           ELSE /\ bookGuide' = IF type # <<>> /\ href # <<>>
                                THEN Append(bookGuide, Reference(type, href))
                                ELSE bookGuide
                /\ itemStart' = scan.next
                /\ UNCHANGED <<ppc, section>>
    /\ UNCHANGED <<descriptor, gap, bookManifest, bookSpine, Stylesheets, Chapters, firstRun>>
    /\ UNCHANGED <<bookVars, docVars>>
    /\ UNCHANGED <<titleVars, consVars, extractVars, zipVars, callVars>>

----------------------------------------------------------------------------
(* createCleanChapterContent *)

(* A parsed document is held as the sequence of its elements in document     *)
(* order.  An element has a name, the attributes class, id and style, each   *)
(* <<>> when absent and <<value>> when present, and bare, whether it has     *)
(* neither text nor a child element.                                         *)

Element(name, class, id, style, bare) ==
    [name |-> name, class |-> class, id |-> id, style |-> style, bare |-> bare]

\* the first index of white space in s, Len(s) + 1 for none
FieldEnd(s) ==
    IF \E i \in 1..Len(s) : IsSpace(s[i])
    THEN CHOOSE i \in 1..Len(s) : IsSpace(s[i]) /\ \A j \in 1..(i - 1) : ~IsSpace(s[j])
    ELSE Len(s) + 1

\* strings.Fields
RECURSIVE Fields(_)
Fields(s) ==
    LET t == TrimLeft(s)
    IN  IF t = <<>> THEN <<>>
        ELSE <<SubSeq(t, 1, FieldEnd(t) - 1)>> \o Fields(SubSeq(t, FieldEnd(t), Len(t)))

\* strings.Join(tokens, " ")
RECURSIVE JoinSpace(_)
JoinSpace(tokens) ==
    IF tokens = <<>> THEN <<>>
    ELSE IF Len(tokens) = 1 THEN tokens[1]
    ELSE tokens[1] \o <<" ">> \o JoinSpace(Tail(tokens))

\* the test of the class loop with the prefix sgc- looked for anywhere
isPublisherClassAnywhere(cls) ==
    LET lowerCls == ToLower(cls)
    IN  \/ Contains(lowerCls, <<"c","a","l","i","b","r","e">>)
        \/ Contains(lowerCls, <<"s","g","c","-">>)
        \/ HasPrefix(lowerCls, <<"k","o","b","o","-">>)
        \/ HasPrefix(lowerCls, <<"a","d","o","b","e","-">>)

\* the test of the class loop: the token is publisher-specific
isPublisherClass(cls) ==
    LET lowerCls == ToLower(cls)
    IN  \/ Contains(lowerCls, <<"c","a","l","i","b","r","e">>)
        \/ HasPrefix(lowerCls, <<"s","g","c","-">>)
        \/ HasPrefix(lowerCls, <<"k","o","b","o","-">>)
        \/ HasPrefix(lowerCls, <<"a","d","o","b","e","-">>)

\* the loop over strings.Fields(class) that fills cleanClasses
RECURSIVE cleanClasses(_)
cleanClasses(classes) ==
    IF classes = <<>> THEN <<>>
    ELSE IF isPublisherClass(Head(classes)) THEN cleanClasses(Tail(classes))
    ELSE <<Head(classes)>> \o cleanClasses(Tail(classes))

\* the test of the id: publisher-specific
isPublisherID(id) ==
    LET lowerID == ToLower(id)
    IN  \/ Contains(lowerID, <<"c","a","l","i","b","r","e">>)
        \/ Contains(lowerID, <<"t","o","c">>)
        \/ HasPrefix(lowerID, <<"s","g","c","-">>)

\* the callback of doc.Find("*").Each on the element s
CleanElement(s) ==
    [s EXCEPT
        !.class = IF s.class = <<>> THEN <<>>
                  ELSE IF cleanClasses(Fields(s.class[1])) # <<>>
                  THEN <<JoinSpace(cleanClasses(Fields(s.class[1])))>>
                  ELSE <<>>,
        !.id = IF s.id # <<>> /\ isPublisherID(s.id[1]) THEN <<>> ELSE s.id,
        !.style = <<>>]

\* the class tokens an element of the input may carry
ClassTokens ==
    {<<"M","y","C","a","l","i","b","r","e","3">>, <<"s","g","c","-","a">>, <<"x","s","g","c","-","a">>, <<"K","O","B","O","-","b">>, <<"a","d","o","b","e","-","c">>, <<"n","o","t","e">>}

MaxClassTokens == 2
MaxElements == 2

\* the values of a class attribute: tokens separated by one space, and the
\* same within and between more white space
ClassValues ==
    LET seqs == SeqsUpTo(ClassTokens, MaxClassTokens)
    IN  {JoinSpace(ts) : ts \in seqs}
        \cup {<<" ">> \o ts[1] \o <<"\t", " ">> \o ts[2] \o <<"\n">> :
                ts \in {t \in seqs : Len(t) = 2}}

Elements ==
    {Element(n, c, i, s, b) :
        n \in {<<"p">>, <<"d","i","v">>},
        c \in {<<>>} \cup {<<v>> : v \in ClassValues},
        i \in {<<>>, <<<<"t","o","c","-","1">>>>, <<<<"n","1">>>>},
        s \in {<<>>, <<<<"c","o","l","o","r",":","r","e","d">>>>},
        b \in BOOLEAN}

\* the elements before the last one of a document
FillerElements ==
    {Element(<<"s","p","a","n">>, <<<<"c","a","l","i","b","r","e","1">>>>, <<>>, <<<<"m","a","r","g","i","n",":","0">>>>, TRUE),
     Element(<<"p">>, <<<<"n","o","t","e"," ","s","g","c","-","1">>>>, <<>>, <<>>, FALSE)}

\* the state when goquery has parsed the content
InitClean ==
    /\ cpc = "each"
    /\ \E n \in 1..MaxElements, f \in FillerElements, e \in Elements :
           htmlContent = [i \in 1..n |-> IF i < n THEN f ELSE e]
    /\ document = htmlContent
    /\ sel = 1
    /\ returned = <<>>
    /\ contentOPFPath = <<>>
    /\ tpc = "idle" /\ title = <<>> /\ chapterNum = 0 /\ once = <<>> /\ twice = <<>>
    /\ pc = "idle" /\ EnhancedMode = FALSE /\ nDocs = 0 /\ nVaried = 0
    /\ filler = Chapter(<<>>, <<>>) /\ chapters = <<>> /\ idx = 0
    /\ currentChapter = <<>> /\ consolidated = <<>> /\ accDocs = <<>>
    /\ lastOp = "none" /\ minStd = minChapterLength /\ minAlt = minChapterLength
    /\ currentAlt = <<>> /\ consolidatedAlt = <<>> /\ chaptersToProcess = <<>>
    /\ written = {} /\ bookChapters = <<>> /\ manifest = <<>> /\ spine = <<>>
    /\ result = "none"
    /\ xpc = "idle" /\ impl = "none" /\ nEntries = 0 /\ xk = 0 /\ fs = {}
    /\ xlast = <<>> /\ xerr = "none"
    /\ zpc = "idle" /\ tree = {} /\ walk = <<>> /\ zip = <<>> /\ zerr = "none"
    /\ output = "none"
    /\ CoverImage = <<>> /\ Images = <<>> /\ Fonts = <<>>
    /\ formatFiles = {} /\ extracted = {} /\ oebps = {} /\ nav = <<>> /\ ncx = <<>>
    /\ recovered = <<>>
    /\ ppc = "idle" /\ descriptor = <<>> /\ gap = <<>> /\ section = <<>> /\ itemStart = 0
    /\ bookManifest = <<>> /\ bookSpine = <<>> /\ bookGuide = <<>> /\ Stylesheets = <<>>
    /\ Chapters = <<>> /\ firstRun = <<>>

\* one call of the callback of doc.Find("*").Each
EachElement ==
    /\ cpc = "each"
    /\ sel <= Len(document)
    /\ document' = [document EXCEPT ![sel] = CleanElement(document[sel])]
    /\ sel' = sel + 1
    /\ UNCHANGED <<contentOPFPath, cpc, htmlContent, returned>>
    /\ UNCHANGED <<titleVars, consVars, extractVars, zipVars, bookVars, docVars, parseVars>>

\* doc.Find("div, span").Each: an element div or span without text and
\* without a child is removed
RemoveEmpty ==
    /\ cpc = "each"
    /\ sel > Len(document)
    /\ document' = SelectSeq(document,
                             LAMBDA s : ~(s.name \in {<<"d","i","v">>, <<"s","p","a","n">>} /\ s.bare))
    /\ cpc' = "body"
    /\ UNCHANGED <<contentOPFPath, sel, htmlContent, returned>>
    /\ UNCHANGED <<titleVars, consVars, extractVars, zipVars, bookVars, docVars, parseVars>>

\* the markup of the elements is put into the chapter template and returned
CleanReturn ==
    /\ cpc = "body"
    /\ returned' = document
    /\ cpc' = "clean"
    /\ UNCHANGED <<contentOPFPath, document, sel, htmlContent>>
    /\ UNCHANGED <<titleVars, consVars, extractVars, zipVars, bookVars, docVars, parseVars>>

----------------------------------------------------------------------------
(* extractTitle *)

\* the result of extractTitle: the title returned, or a run-time panic
Returned(text) == [fault |-> FALSE, title |-> text]
Fault == [fault |-> TRUE, title |-> <<>>]

(* The h1 branch of extractTitle: h1Start is overwritten with the offset of  *)
(* ">" in content[h1Start:], then h1Start += h1Start + 1.  A slice from      *)
(* beyond the end of the content is a run-time panic.                        *)
h1Branch(content) ==
    LET first == Index(content, <<"<","h","1">>)
        rel == Index(From(content, first), <<">">>)
        h1Start == rel + rel + 1
        h1End == Index(From(content, h1Start), <<"<","/","h","1",">">>)
    IN  IF first = -1 \/ rel = -1 THEN Returned(<<"U","n","t","i","t","l","e","d">>)
        ELSE IF h1Start > Len(content) THEN Fault
        ELSE IF h1End = -1 THEN Returned(<<"U","n","t","i","t","l","e","d">>)
        ELSE Returned(TrimSpace(Slice(content, h1Start, h1Start + h1End)))

\* extractTitle
extractTitle(content) ==
    LET titleStart == Index(content, <<"<","t","i","t","l","e",">">>) + 7
        titleEnd == Index(From(content, titleStart), <<"<","/","t","i","t","l","e",">">>)
    IN  IF Index(content, <<"<","t","i","t","l","e",">">>) # -1 /\ titleEnd # -1
        THEN Returned(TrimSpace(Slice(content, titleStart, titleStart + titleEnd)))
        ELSE h1Branch(content)

\* the pieces of the documents extractTitle is followed on: what stands before
\* the head, the title element, and the heading
Leads == {<<>>, <<"<","p",">","x","<","/","p",">">>, <<"<","h","t","m","l",">","<","h","e","a","d",">">>}
Titles == {<<>>, <<"<","t","i","t","l","e",">","T","<","/","t","i","t","l","e",">">>, <<"<","t","i","t","l","e",">"," ","M","y"," ","B","o","o","k"," ","<","/","t","i","t","l","e",">">>, <<"<","t","i","t","l","e",">","T">>}
Headings ==
    {<<>>, <<"<","h","1",">","T","i","t","l","e","<","/","h","1",">">>, <<"<","h","1"," ","c","l","a","s","s","=","\"","c","\"",">","O","n","e","<","/","h","1",">">>, <<"<","h","1",">","N","o"," ","e","n","d">>, <<"<","h","1">>,
     <<"<","h","1",">"," ","T","w","o"," ","<","/","h","1",">","<","p",">","a","<","/","p",">","<","h","1",">","b","<","/","h","1",">">>}

TitleDocuments == {l \o t \o h : l \in Leads, t \in Titles, h \in Headings}

\* the state when findChapters has read a document of the spine
InitExtractTitle ==
    /\ cpc = "read"
    /\ htmlContent \in TitleDocuments
    /\ returned = <<>>
    /\ document = <<>>
    /\ sel = 0
    /\ contentOPFPath = <<>>
    /\ tpc = "idle" /\ title = <<>> /\ chapterNum = 0 /\ once = <<>> /\ twice = <<>>
    /\ pc = "idle" /\ EnhancedMode = FALSE /\ nDocs = 0 /\ nVaried = 0
    /\ filler = Chapter(<<>>, <<>>) /\ chapters = <<>> /\ idx = 0
    /\ currentChapter = <<>> /\ consolidated = <<>> /\ accDocs = <<>>
    /\ lastOp = "none" /\ minStd = minChapterLength /\ minAlt = minChapterLength
    /\ currentAlt = <<>> /\ consolidatedAlt = <<>> /\ chaptersToProcess = <<>>
    /\ written = {} /\ bookChapters = <<>> /\ manifest = <<>> /\ spine = <<>>
    /\ result = "none"
    /\ xpc = "idle" /\ impl = "none" /\ nEntries = 0 /\ xk = 0 /\ fs = {}
    /\ xlast = <<>> /\ xerr = "none"
    /\ zpc = "idle" /\ tree = {} /\ walk = <<>> /\ zip = <<>> /\ zerr = "none"
    /\ output = "none"
    /\ CoverImage = <<>> /\ Images = <<>> /\ Fonts = <<>>
    /\ formatFiles = {} /\ extracted = {} /\ oebps = {} /\ nav = <<>> /\ ncx = <<>>
    /\ recovered = <<>>
    /\ ppc = "idle" /\ descriptor = <<>> /\ gap = <<>> /\ section = <<>> /\ itemStart = 0
    /\ bookManifest = <<>> /\ bookSpine = <<>> /\ bookGuide = <<>> /\ Stylesheets = <<>>
    /\ Chapters = <<>> /\ firstRun = <<>>

\* findChapters calls extractTitle on the content of the document
ExtractTitleCall ==
    /\ cpc = "read"
    /\ returned' = extractTitle(htmlContent)
    /\ cpc' = IF extractTitle(htmlContent).fault THEN "panic" ELSE "titled"
    /\ UNCHANGED <<contentOPFPath, document, sel, htmlContent>>
    /\ UNCHANGED <<titleVars, consVars, extractVars, zipVars, bookVars, docVars, parseVars>>

\* findChapters appends the chapter with the title and the content
AppendChapter ==
    /\ cpc = "titled"
    /\ document' = Append(document, [Title |-> returned.title, Content |-> htmlContent])
    /\ cpc' = "appended"
    /\ UNCHANGED <<contentOPFPath, sel, htmlContent, returned>>
    /\ UNCHANGED <<titleVars, consVars, extractVars, zipVars, bookVars, docVars, parseVars>>

----------------------------------------------------------------------------

(* Specifications *)

\* title cleanup alone
TitleNext == CleanOnce \/ CleanTwice

SpecTitle == InitTitle /\ [][TitleNext]_vars

\* a run of Restructure from the parsed documents to the generated package documents
Next ==
    \/ FindChapter
    \/ ProcessContentStart
    \/ ProcessStylesheets
    \/ CopyFonts
    \/ ProcessImages
    \/ ProcessChaptersStart
    \/ CleanupChapter
    \/ CleanupReturn
    \/ ConsolidateChapter
    \/ ConsolidateReturn
    \/ WriteChapter
    \/ ProcessChaptersReturn
    \/ CreateNavDocument
    \/ CreateContentOPF
    \/ CreateTocNCX

Spec == Init /\ [][Next]_vars

\* processContent on small books with every kind of asset, and ParseEPUB on the result
ContentNext ==
    \/ ProcessContentStart
    \/ ProcessStylesheets
    \/ CopyFonts
    \/ ProcessImages
    \/ ProcessChaptersStart
    \/ CleanupChapter
    \/ CleanupReturn
    \/ WriteChapter
    \/ ProcessChaptersReturn
    \/ CreateNavDocument
    \/ CreateContentOPF
    \/ CreateTocNCX
    \/ ParseOutput

SpecContent == InitContent /\ [][ContentNext]_vars

\* ParseEPUB on a descriptor the strict parser accepts, and a second classification
ParseNext == ParseStrict \/ Reclassify

SpecParse == InitParse /\ [][ParseNext]_vars

\* the text scan of ParseEPUB on a descriptor the strict parser rejects
FallbackNext == ParseManually \/ ManifestItemScan \/ SpineItemScan \/ GuideItemScan

SpecFallback == InitFallback /\ [][FallbackNext]_vars

\* consolidateChapters under two minimum lengths
ExtractNext == OpenReader \/ ExtractEntry \/ ExtractReturn

SpecExtract == InitExtract /\ [][ExtractNext]_vars

ZipNext == RestructureTree \/ CreateEPUBStart \/ WalkFile \/ CreateEPUBReturn

SpecZip == InitZip /\ [][ZipNext]_vars

ThresholdNext == FindChapter \/ CompareStart \/ CompareChapter \/ CompareReturn

SpecThreshold == InitThreshold /\ [][ThresholdNext]_vars

MaximumNext == ProcessChaptersStart \/ ConsolidateChapter \/ ConsolidateReturn

SpecMaximum == InitMaximum /\ [][MaximumNext]_vars

CleanNext == EachElement \/ RemoveEmpty \/ CleanReturn

SpecClean == InitClean /\ [][CleanNext]_vars

ExtractTitleNext == ExtractTitleCall \/ AppendChapter

SpecExtractTitle == InitExtractTitle /\ [][ExtractTitleNext]_vars

----------------------------------------------------------------------------
(* Claims *)

(* C1: in every archive written by createEPUB the first physical entry is    *)
(* named mimetype, is stored with method Store, holds exactly the literal    *)
(* application/epub+zip once createEPUB has returned nil, and no other entry *)
(* of the archive is named mimetype.                                         *)
C1_MimetypeFirst ==
    /\ zip # <<>> =>
         /\ zip[1].name = <<"mimetype">>
         /\ zip[1].method = "Store"
         /\ \A i \in 2..Len(zip) : zip[i].name # <<"mimetype">>
    /\ zpc = "ok" => (zip # <<>> /\ zip[1].content = MimetypeLiteral)

\* createEPUB has returned nil for a book with an image called mimetype
C1_Witness ==
    /\ zpc = "ok"
    /\ Len(zip) >= 7
    /\ \E i \in 2..Len(zip) :
         /\ zip[i].name = <<"OEBPS", "images", "mimetype">>
         /\ zip[i].content = MimetypeLiteral

\* consolidateChapters has returned to processChapters
ConsolidateReturned ==
    EnhancedMode /\ pc \in {"write", "nav", "opf", "ncx", "done"}

\* the three digits of i < 1000
ThreeDigits(i) ==
    <<Digits[((i \div 100) % 10) + 1], Digits[((i \div 10) % 10) + 1], Digits[(i % 10) + 1]>>

ChapterEntries == SelectSeq(manifest, LAMBDA it : HasPrefix(it.id, <<"c","h","a","p","t","e","r">>))

ChapterRefs == SelectSeq(spine, LAMBDA r : HasPrefix(r, <<"c","h","a","p","t","e","r">>))

\* C2: after a successful Restructure the manifest of content.opf has exactly
\* len(book.Chapters) chapter items, chapter1..chapterN with href
\* chapters/chapter_NNN.xhtml, the spine refers to the same N, and the file of each
\* was written by processChapters.
C2_ManifestChaptersWritten ==
    result = "ok" =>
        /\ Len(ChapterEntries) = Len(bookChapters)
        /\ Len(ChapterRefs) = Len(bookChapters)
        /\ \A i \in 1..Len(ChapterEntries) :
               /\ ChapterEntries[i].id = <<"c","h","a","p","t","e","r">> \o FormatInt(i)
               /\ ChapterRefs[i] = ChapterEntries[i].id
               /\ ChapterEntries[i].href =
                      <<"c","h","a","p","t","e","r","s","/">> \o <<"c","h","a","p","t","e","r","_">> \o ThreeDigits(i) \o <<".","x","h","t","m","l">>
               /\ \E f \in written : ChapterEntries[i].href = <<"c","h","a","p","t","e","r","s","/">> \o f

\* a successful run that merged documents and wrote more than one chapter
C2_Witness ==
    /\ result = "ok"
    /\ EnhancedMode
    /\ Len(bookChapters) >= 2
    /\ Len(bookChapters) < Len(chapters)
    /\ Len(ChapterEntries) = Len(bookChapters)

RECURSIVE SumTrimmed(_)
SumTrimmed(docs) ==
    IF docs = <<>> THEN 0
    ELSE ContentLen(TrimContent(chapters[Head(docs)].Content)) + SumTrimmed(Tail(docs))

\* C4: in consolidation mode, when a document is merged into the accumulator, the
\* trimmed lengths of all the accumulator's documents, the merged one included, sum
\* to at most 15,000.
C4_MergeWithinMaximum ==
    (pc = "consolidate" /\ lastOp = "merge") => SumTrimmed(accDocs) <= 15000

\* a merge that brings the accumulator close to the maximum
C4_Witness ==
    /\ pc = "consolidate"
    /\ lastOp = "merge"
    /\ Len(accDocs) >= 3
    /\ SumTrimmed(accDocs) > 14000

\* C5: for a fixed input of more than 20 documents and a fixed maximum, a larger
\* minimum length never gives more chapters.
C5_CountMonotone ==
    (pc = "compared" /\ minStd <= minAlt) => Len(consolidatedAlt) <= Len(consolidated)

\* the larger minimum gives strictly fewer chapters, and still more than one
C5_Witness ==
    /\ pc = "compared"
    /\ minStd < minAlt
    /\ Len(consolidatedAlt) >= 2
    /\ Len(consolidatedAlt) < Len(consolidated)

AllNavigation == \A i \in 1..Len(chapters) : isNavigationChapter(chapters[i])

\* C6: in consolidation mode, when every document is navigation noise,
\* consolidateChapters returns no chapter, and no error.
C6_AllNavigationGivesNone ==
    (ConsolidateReturned /\ Len(chapters) > 20 /\ AllNavigation) =>
        /\ chaptersToProcess = <<>>
        /\ (pc = "write" => result = "running")

\* more than 20 navigation documents of different kinds were consolidated
C6_Witness ==
    /\ ConsolidateReturned
    /\ pc = "write"
    /\ Len(chapters) > 20
    /\ AllNavigation
    /\ \E i, j \in 1..Len(chapters) : chapters[i].Content # chapters[j].Content
    /\ chaptersToProcess = <<>>

\* C7: in direct mode (N <= 20 documents) consolidateChapters returns N chapters, the
\* i-th with the content of the i-th document; nothing is merged or dropped.
C7_DirectModeKeepsDocuments ==
    (ConsolidateReturned /\ Len(chapters) <= 20) =>
        /\ Len(chaptersToProcess) = Len(chapters)
        /\ \A i \in 1..Len(chapters) : chaptersToProcess[i].Content = chapters[i].Content

\* 20 documents, one of them navigation noise, one with a rewritten title
C7_Witness ==
    /\ ConsolidateReturned
    /\ Len(chapters) = 20
    /\ Len(chaptersToProcess) = 20
    /\ \E i \in 1..20 : isNavigationChapter(chapters[i])
    /\ \E i \in 1..20 : chaptersToProcess[i].Title # chapters[i].Title

\* C8: every chapter consolidateChapters returns, and so every chapter of
\* book.Chapters after processChapters, has a non-empty title.
C8_TitlesNeverEmpty ==
    /\ ConsolidateReturned =>
           \A i \in 1..Len(chaptersToProcess) : chaptersToProcess[i].Title # <<>>
    /\ (EnhancedMode /\ (pc \in {"nav", "opf", "ncx"} \/ result = "ok")) =>
           \A i \in 1..Len(bookChapters) : bookChapters[i].Title # <<>>

\* the same in direct mode only, where it holds
DirectModeTitlesNeverEmpty ==
    (ConsolidateReturned /\ DirectMode(Len(chapters))) =>
        \A i \in 1..Len(chaptersToProcess) : chaptersToProcess[i].Title # <<>>

\* a path lies strictly inside the extraction directory: the elements of
\* extractPath, and at least one more
StrictlyInside(p) ==
    LET pcs == Components(p)
        ecs == Components(extractPath)
    IN  Len(pcs) > Len(ecs) /\ SubSeq(pcs, 1, Len(ecs)) = ecs

\* the last entry was a file entry of more than maxSize bytes
OversizeEntry == xlast # <<>> /\ ~xlast.isDir /\ xlast.size > maxSize

(* C9: an entry whose uncompressed size exceeds the cap of 100 MB makes      *)
(* extractEPUB fail with an error, and extraction never reports success      *)
(* with a file on disk that holds only a prefix of its entry.                *)
C9_OversizeEntryFails ==
    /\ OversizeEntry => xerr # "none"
    /\ xpc = "ok" => \A f \in fs : f.kind = "file" => f.size = f.srcSize

\* what C10 asks of the state after an entry
WritesStayInside ==
    /\ \A f \in fs : f.fromEntry => StrictlyInside(f.path)
    /\ (xlast # <<>> /\ ~StrictlyInside(xlast.path)) => xerr = "illegal path"

(* C10: extractEPUB creates or writes a file or directory for an entry only  *)
(* at a path strictly inside the extraction directory, and an entry whose    *)
(* resolved path is not strictly inside ends extraction with the             *)
(* path-traversal error with nothing written for it.                         *)
C10_WritesStayInside == impl \in {"processor", "parser"} => WritesStayInside

\* the same for the copy of extractEPUB in processor.go alone
ProcessorWritesStayInside == impl = "processor" => WritesStayInside

\* the copy of processor.go reaches entries of every kind next to and above
\* the extraction directory and refuses them
ProcessorRefusesOutside ==
    /\ impl = "processor"
    /\ xerr = "illegal path"
    /\ xlast.path = Join(tempDir, <<"e", "x", "t", "r", "a", "c", "t", "e", "d", "x">>)

(* C11: when Process fails, at whatever stage, no partly written archive is  *)
(* left at the output path.                                                  *)
C11_NoPartialArchive == zpc = "failed" => output = "none"

(* C12: ParseEPUB on the extracted archive of a successful run succeeds, and  *)
(* the Book it returns has as many chapters as the run wrote.                 *)
C12_RoundTrip ==
    pc = "reparsed" =>
        /\ ~recovered.err
        /\ Len(recovered.Chapters) = Len(bookChapters)

\* the first element of a sequence that satisfies Test, <<>> for none
FirstHref(items, Test(_)) ==
    LET at == {i \in 1..Len(items) : Test(items[i])}
    IN  IF at = {} THEN <<>> ELSE items[CHOOSE i \in at : \A j \in at : i <= j].href

\* the cover C14 names for a descriptor: the first flagged item, else the item
\* of the first guide entry of type cover, else the first item whose
\* identifier or file name contains "cover"
ClaimedCover(d) ==
    LET flagged == FirstHref(d.items, LAMBDA it : it.properties = <<"c","o","v","e","r","-","i","m","a","g","e">>)
        entries == SelectSeq(d.guide, LAMBDA g : g.type = <<"c","o","v","e","r">>)
        guided == IF entries = <<>> THEN <<>>
                  ELSE FirstHref(d.items, LAMBDA it : it.href = entries[1].href)
        named == FirstHref(d.items, LAMBDA it : Contains(it.id, <<"c","o","v","e","r">>)
                                               \/ Contains(Base(it.href), <<"c","o","v","e","r">>))
    IN  IF flagged # <<>> THEN flagged
        ELSE IF guided # <<>> THEN guided
        ELSE named

(* C13: when the text scan has gone through a descriptor that the strict      *)
(* parser rejects, Manifest holds every declared <item/> with its attribute   *)
(* values, Spine every <itemref/> once and in document order, and Guide every *)
(* <reference/>: the fields are what the strict path makes of the same        *)
(* declarations.                                                              *)
C13_FallbackMatchesStrict ==
    ppc = "scanned" =>
        /\ bookManifest = ManifestOf(descriptor.items)
        /\ bookSpine = descriptor.refs
        /\ bookGuide = descriptor.guide

(* C14: the cover ParseEPUB settles on is the first manifest item, in          *)
(* descriptor order, flagged as cover image; with none flagged, the item named *)
(* by the first guide entry of type cover; failing that, the first manifest    *)
(* item whose identifier or file name contains "cover"; the same at every run. *)
C14_CoverPriority ==
    ppc \in {"parsed", "reclassified"} => CoverImage = ClaimedCover(descriptor)

(* C15: a second run of findStylesheets, findImages, findFonts and             *)
(* findChapters leaves Stylesheets, Images, Fonts and Chapters as the first    *)
(* run left them, and Manifest and Spine unchanged.                            *)
C15_ClassificationIdempotent ==
    ppc = "reclassified" =>
        /\ Stylesheets = firstRun.Stylesheets
        /\ Images = firstRun.Images
        /\ Fonts = firstRun.Fonts
        /\ Chapters = firstRun.Chapters
        /\ bookManifest = firstRun.Manifest
        /\ bookSpine = firstRun.Spine

\* the part of C15 about Manifest and Spine alone
ReclassifyKeepsManifestAndSpine ==
    ppc = "reclassified" =>
        bookManifest = firstRun.Manifest /\ bookSpine = firstRun.Spine

(* C16: in a Book that ParseEPUB returns, the IDRef of every spine item is the *)
(* identifier of an item of Manifest.                                          *)
C16_SpineResolves ==
    ppc \in {"parsed", "reclassified"} =>
        \A i \in 1..Len(bookSpine) : bookSpine[i] \in DOMAIN bookManifest

\* the navPoints of toc.ncx that point below chapters/
ChapterPoints ==
    SelectSeq(ncx, LAMBDA p : Len(p.src) >= 9 /\ SubSeq(p.src, 1, 9) = <<"c","h","a","p","t","e","r","s","/">>)

\* C17: after a run that wrote both navigation documents, nav.xhtml and
\* toc.ncx each have one chapter entry per chapter of book.Chapters, the i-th
\* entry of each points to chapters/chapter_NNN.xhtml with NNN = i, and the two
\* carry the same title
C17_NavigationInSync ==
    (pc = "done" /\ result = "ok") =>
        /\ Len(nav) = Len(bookChapters)
        /\ Len(ChapterPoints) = Len(bookChapters)
        /\ \A i \in 1..Len(bookChapters) :
               /\ nav[i].href = <<"c","h","a","p","t","e","r","s","/","c","h","a","p","t","e","r","_","0","0">> \o FormatInt(i) \o <<".","x","h","t","m","l">>
               /\ ChapterPoints[i].src = nav[i].href
               /\ ChapterPoints[i].text = nav[i].title
               /\ nav[i].title = bookChapters[i].Title

\* a run with a cover and two chapters of different titles has written both
\* navigation documents
C17_Witness ==
    /\ pc = "done" /\ result = "ok"
    /\ CoverImage # <<>>
    /\ Len(bookChapters) = 2
    /\ bookChapters[1].Title # bookChapters[2].Title
    /\ Len(ncx) = 4 /\ Len(nav) = 2


\* the items of the generated manifest whose target lies below dir
ItemsBelow(dir) ==
    {i \in 1..Len(manifest) :
        /\ Len(manifest[i].href) >= Len(dir)
        /\ SubSeq(manifest[i].href, 1, Len(dir)) = dir}

\* the items createContentOPF writes for the entries of book.Images: image1,
\* image2, ...
BookImageItems ==
    {i \in ItemsBelow(<<"i","m","a","g","e","s","/">>) :
        /\ Len(manifest[i].id) > 5
        /\ SubSeq(manifest[i].id, 1, 5) = <<"i","m","a","g","e">>}

\* C18: after a successful run every item the generated manifest has for an
\* image of the book, the cover aside, names a file that was written under
\* images/, so an image that could not be located has no item
C18_UnlocatedImageOmitted ==
    (pc = "done" /\ result = "ok") =>
        \A i \in BookImageItems : manifest[i].href \in oebps


\* C19: a run succeeds only if the format directory has both the stylesheet
\* and the font file, and after a successful run every stylesheet and font
\* item of the generated manifest names a file that was written
C19_MissingAssetFails ==
    (pc = "done" /\ result = "ok") =>
        /\ {"stylesheet.css", "jura.ttf"} \subseteq formatFiles
        /\ \A i \in ItemsBelow(<<"s","t","y","l","e","s","/">>) \cup ItemsBelow(<<"f","o","n","t","s","/">>) :
               manifest[i].href \in oebps

\* navigation noise as the sentence defines it: a table-of-contents marker in
\* the title or the content, or more than 10 links in 1000 characters of content
MarkerOrDense(chapter) ==
    LET t == ToLower(chapter.Title)
        content == ContentToLower(chapter.Content)
        links == ContentCount(content, <<"<","a"," ">>)
        length == ContentLen(TrimContent(content))
    IN  \/ \E indicator \in navIndicators :
               Contains(t, indicator) \/ ContentContains(content, indicator)
        \/ length > 0 /\ links * 1000 > 10 * length

\* C20: in consolidation mode a document with a table-of-contents marker, or
\* with more than 10 links in 1000 characters whatever the number of its links,
\* is dropped by the iteration of consolidateChapters that meets it
C20_DenseLinksDropped ==
    (pc = "consolidate" /\ idx > 1 /\ MarkerOrDense(chapters[idx - 1])) =>
        lastOp = "drop"

\* C21: for a package all of whose declared files lie beside its descriptor,
\* whatever the directory of the descriptor, ParseEPUB reads every content
\* document of the spine, at the descriptor's directory joined with the href
C21_HrefRelativeToDescriptor ==
    (ppc \in {"parsed", "reclassified", "failed"}
        /\ extracted = PackageFiles(descriptor, contentOPFPath)) =>
        ppc # "failed"


\* C22: the title of every chapter consolidateChapters returns, in either
\* mode, is what cleanChapterTitle gives for the title of one of the documents
C22_SealedTitlesCleaned ==
    ConsolidateReturned =>
        \A i \in 1..Len(chaptersToProcess) :
            \E d \in 1..Len(chapters), k \in 1..Len(chapters) :
                chaptersToProcess[i].Title = cleanChapterTitle(chapters[d].Title, k)

\* a class token of the publisher denylist: it contains calibre, or starts
\* with sgc-, kobo- or adobe-, in whatever case
OnDenylist(token) ==
    LET t == ToLower(token)
    IN  \/ \E i \in 1..Len(t) : Len(t) >= i + 6 /\ SubSeq(t, i, i + 6) = <<"c","a","l","i","b","r","e">>
        \/ Len(t) >= 4 /\ SubSeq(t, 1, 4) = <<"s","g","c","-">>
        \/ Len(t) >= 5 /\ SubSeq(t, 1, 5) = <<"k","o","b","o","-">>
        \/ Len(t) >= 6 /\ SubSeq(t, 1, 6) = <<"a","d","o","b","e","-">>

\* the class tokens of an element, none when it has no class attribute
TokensOf(s) == IF s.class = <<>> THEN <<>> ELSE Fields(s.class[1])

\* C23: every element the callback has gone over keeps exactly the class
\* tokens that are not on the denylist, in their order, has no class attribute
\* when none is left, and has no style attribute; and so has every element of
\* the content returned
C23_ClassTokensFiltered ==
    /\ cpc = "each" =>
          \A i \in 1..(sel - 1) :
              /\ TokensOf(document[i])
                     = SelectSeq(TokensOf(htmlContent[i]), LAMBDA t : ~OnDenylist(t))
              /\ document[i].class # <<>> <=>
                     \E j \in 1..Len(TokensOf(htmlContent[i])) :
                         ~OnDenylist(TokensOf(htmlContent[i])[j])
              /\ document[i].style = <<>>
    /\ cpc = "clean" =>
          \A i \in 1..Len(returned) :
              /\ \A j \in 1..Len(TokensOf(returned[i])) :
                     ~OnDenylist(TokensOf(returned[i])[j])
              /\ returned[i].class # <<>> => TokensOf(returned[i]) # <<>>
              /\ returned[i].style = <<>>

\* the callback has gone over an element with a style and with two class
\* tokens between white space, one of the denylist and one that is kept
C23_Witness ==
    /\ cpc = "each"
    /\ sel > 1
    /\ htmlContent[sel - 1].style # <<>>
    /\ Len(TokensOf(htmlContent[sel - 1])) = 2
    /\ htmlContent[sel - 1].class[1][1] = " "
    /\ OnDenylist(TokensOf(htmlContent[sel - 1])[1])
    /\ ~OnDenylist(TokensOf(htmlContent[sel - 1])[2])
    /\ Len(TokensOf(document[sel - 1])) = 1

\* C24: in consolidation mode a document that is not navigation noise is
\* merged into the accumulator if and only if its trimmed length is below 800,
\* an accumulator is open, and the length of the accumulator and its own are
\* together at most 15,000; otherwise the accumulator, if any, is sealed and
\* the document opens a new one
C24_MergeIffFits ==
    [][(pc = "consolidate" /\ pc' = "consolidate" /\ idx' = idx + 1
           /\ ~isNavigationChapter(chapters[idx])) =>
          LET len == ContentLen(TrimContent(chapters[idx].Content))
          IN  /\ lastOp' = "merge" <=>
                     /\ len < 800
                     /\ currentChapter # <<>>
                     /\ ContentLen(currentChapter[1].Content) + len <= 15000
              /\ lastOp' # "merge" =>
                     /\ lastOp' = "open"
                     /\ consolidated' = consolidated \o currentChapter]_vars

\* the contents of a sequence of chapters, in order, with a blank line between
RECURSIVE JoinContents(_)
JoinContents(chs) ==
    IF chs = <<>> THEN <<>>
    ELSE IF Len(chs) = 1 THEN chs[1].Content
    ELSE ConcatContent(ConcatContent(chs[1].Content, <<Run(<<"\n">>, 2)>>),
                       JoinContents(Tail(chs)))

\* the documents isNavigationChapter lets through
Surviving == SelectSeq(chapters, LAMBDA ch : ~isNavigationChapter(ch))

\* C25: in consolidation mode, when consolidateChapters has returned and
\* before the first chapter is written, the contents of the chapters returned, joined
\* with a blank line, are the contents of the documents that are not
\* navigation noise, in spine order, joined with a blank line
C25_ContentPreserved ==
    (ConsolidateReturned /\ pc = "write" /\ idx = 1 /\ Len(chapters) > 20) =>
        JoinContents(chaptersToProcess) = JoinContents(Surviving)

\* a consolidation that started on a short document, dropped a navigation
\* document, merged documents and returned two chapters or more
C25_Witness ==
    /\ ConsolidateReturned
    /\ pc = "write"
    /\ idx = 1
    /\ Len(chapters) > 20
    /\ ContentLen(TrimContent(chapters[1].Content)) < 800
    /\ ~isNavigationChapter(chapters[1])
    /\ Len(Surviving) < Len(chapters)
    /\ Len(chaptersToProcess) >= 2
    /\ Len(chaptersToProcess) < Len(Surviving)

\* the cover of the book was located among the extracted files and written as
\* images/cover with its extension
CoverCopied ==
    /\ CoverImage # <<>>
    /\ Located(extracted, CoverImage)
    /\ (<<"i","m","a","g","e","s","/","c","o","v","e","r">> \o Ext(CoverImage)) \in oebps

\* the identifiers of the manifest written, and the sources of the navPoints
ManifestIds == {manifest[i].id : i \in 1..Len(manifest)}
NavSources == {ncx[i].src : i \in 1..Len(ncx)}

\* C26: after a successful run titlepage.xhtml and jacket.xhtml are in the
\* output exactly when a cover was located and copied, and exactly then the
\* manifest holds the items titlepage, jacket and cover-image, the spine the
\* references titlepage and jacket, and toc.ncx starts with their two navPoints
C26_CoverPagesIffCover ==
    (pc \in {"done", "reparsed"} /\ result = "ok") =>
        /\ <<"t","i","t","l","e","p","a","g","e",".","x","h","t","m","l">> \in oebps <=> CoverCopied
        /\ <<"j","a","c","k","e","t",".","x","h","t","m","l">> \in oebps <=> CoverCopied
        /\ \A id \in {<<"t","i","t","l","e","p","a","g","e">>, <<"j","a","c","k","e","t">>, <<"c","o","v","e","r","-","i","m","a","g","e">>} :
               id \in ManifestIds <=> CoverCopied
        /\ \A id \in {<<"t","i","t","l","e","p","a","g","e">>, <<"j","a","c","k","e","t">>} :
               (\E i \in 1..Len(spine) : spine[i] = id) <=> CoverCopied
        /\ CoverCopied => /\ Len(ncx) >= 2
                          /\ ncx[1].src = <<"t","i","t","l","e","p","a","g","e",".","x","h","t","m","l">>
                          /\ ncx[2].src = <<"j","a","c","k","e","t",".","x","h","t","m","l">>
        /\ ~CoverCopied => NavSources \cap {<<"t","i","t","l","e","p","a","g","e",".","x","h","t","m","l">>, <<"j","a","c","k","e","t",".","x","h","t","m","l">>} = {}

\* a successful run on a book with chapters whose cover is not below basePath
\* and was found by the later lookups of processImages
C26_Witness ==
    /\ pc = "done"
    /\ result = "ok"
    /\ CoverCopied
    /\ Join(basePath, CoverImage) \notin extracted
    /\ <<"t","i","t","l","e","p","a","g","e",".","x","h","t","m","l">> \in oebps
    /\ Len(ncx) >= 3

\* C27: the text scan visits each element of a section at most once and ends:
\* no scanner faults, and book.Spine and book.Guide never hold more entries
\* than the spine and the guide of the descriptor have elements
C27_ScanVisitsOnce ==
    /\ ppc # "panic"
    /\ ppc \in {"spine", "guide", "scanned"} => Len(bookSpine) <= Len(descriptor.refs)
    /\ ppc \in {"guide", "scanned"} => Len(bookGuide) <= Len(descriptor.guide)

\* C28: Restructure ends with a result or an error value and never with a
\* run-time fault, also for a book whose spine is empty
C28_NoRuntimeFault ==
    pc # "panic"

\* the path below OEBPS processImages writes an image of book.Images to
ImageOutput(imagePath) == <<"i","m","a","g","e","s","/">> \o Base(imagePath)

\* the entries of book.Images processImages copies
CopiedImages ==
    {i \in 1..Len(Images) : Images[i] # CoverImage /\ Located(extracted, Images[i])}

\* C29: after a successful run no two distinct source images were written to
\* the same output path, no image was written to the path of the cover, and
\* no two items of the manifest have the same href
C29_DistinctOutputs ==
    (pc \in {"done", "reparsed"} /\ result = "ok") =>
        /\ \A i, j \in CopiedImages :
               Images[i] # Images[j] => ImageOutput(Images[i]) # ImageOutput(Images[j])
        /\ CoverImage # <<>> =>
               \A i \in CopiedImages :
                   ImageOutput(Images[i]) # <<"i","m","a","g","e","s","/","c","o","v","e","r">> \o Ext(CoverImage)
        /\ \A i, j \in 1..Len(manifest) :
               manifest[i].href = manifest[j].href => i = j

\* the title the documentation states for a content: the text of the first
\* title element; otherwise the text between the end of the first <h1 ...>
\* opening tag and the next </h1>; otherwise "Untitled"
ClaimedTitle(content) ==
    LET titleStart == Index(content, <<"<","t","i","t","l","e",">">>) + 7
        titleEnd == Index(From(content, titleStart), <<"<","/","t","i","t","l","e",">">>)
        first == Index(content, <<"<","h","1">>)
        h1Start == first + Index(From(content, first), <<">">>) + 1
        h1End == Index(From(content, h1Start), <<"<","/","h","1",">">>)
    IN  IF Index(content, <<"<","t","i","t","l","e",">">>) # -1 /\ titleEnd # -1
        THEN TrimSpace(Slice(content, titleStart, titleStart + titleEnd))
        ELSE IF first = -1 \/ Index(From(content, first), <<">">>) = -1 \/ h1End = -1
        THEN <<"U","n","t","i","t","l","e","d">>
        ELSE TrimSpace(Slice(content, h1Start, h1Start + h1End))

\* C30: extractTitle returns without a run-time fault, and what it returns is
\* the trimmed text of the first title element, otherwise the trimmed text
\* between the first h1 opening tag and the next </h1>, otherwise "Untitled"
C30_TitleExtracted ==
    cpc \in {"titled", "appended", "panic"} =>
        /\ cpc # "panic"
        /\ returned.title = ClaimedTitle(htmlContent)

====
